---- MODULE Spec2Model ----
(***************************************************************************)
(* Model of the HDR UK Gateway client (src/hdruk_gateway): the transport   *)
(* and its error taxonomy, the resource search/get operations, the unified *)
(* search, the lazy dataset iterator, the natural-language query parser    *)
(* and the suggestion generator.                                           *)
(*                                                                         *)
(* Conventions.  A Python str is a tuple of one-character strings.  A JSON *)
(* object / Python dict is a function whose DOMAIN is the set of keys that *)
(* are present; dict.get is Get.  A call either returns or raises:         *)
(* Return(v) / Raise(e), e the name of the exception class.                *)
(***************************************************************************)
EXTENDS Integers, Sequences, FiniteSets, TLC

VARIABLES
    pc,       \* "idle", or the operation in progress on the calling thread
    call,     \* the current / last operation and its arguments
    result,   \* what the last operation returned or raised (partial while running)
    net,      \* the requests the session was asked to send by that operation
    gen,      \* the state of the iter_datasets generator held by the consumer
    server,   \* how the remote API on the other side of the session paginates
    jobs      \* the OpenSAFELYJobsClient object: its fields and the clock it reads

vars == <<pc, call, result, net, gen, server, jobs>>

----------------------------------------------------------------------------
(* Bounds of the model *)

MaxQueryLen == 3      \* longest query handed to the client operations
MaxTypes == 2         \* longest explicit resource_types list
MaxPage == 2          \* largest page argument
MaxLastPage == 3      \* largest last_page the list endpoint reports
MaxItems == 2         \* most records in one response

----------------------------------------------------------------------------
(* Generic helpers *)

None == "None"

Return(v) == [kind |-> "return", value |-> v]
Raise(e) == [kind |-> "raise", error |-> e]

\* dict.get(key, default)
Get(m, k, d) == IF k \in DOMAIN m THEN m[k] ELSE d

\* The empty dict {}.  TLC has no record without fields, so {} is the map
\* whose only key is the reserved name "{}"; no lookup ever asks for that key.
EmptyMap == [k \in {"{}"} |-> None]

\* dict.update: keys of b override keys of a
Update(a, b) ==
    [k \in ((DOMAIN a) \cup (DOMAIN b)) \ {"{}"} |-> IF k \in DOMAIN b THEN b[k] ELSE a[k]]

\* all sequences over S of length at most n
RECURSIVE SeqsUpTo(_, _)
SeqsUpTo(S, n) ==
    IF n = 0 THEN {<<>>}
    ELSE LET shorter == SeqsUpTo(S, n - 1)
         IN  shorter \cup {Append(s, x) : s \in {t \in shorter : Len(t) = n - 1}, x \in S}

NoRepeat(s) == \A i, j \in 1..Len(s) : i # j => s[i] # s[j]

----------------------------------------------------------------------------
(* Exceptions: src/hdruk_gateway/exceptions.py *)

\* GatewayAPIError and its subclasses
GatewayErrors ==
    {"GatewayAPIError", "GatewayAuthError", "GatewayNotFoundError",
     "GatewayRateLimitError", "GatewayValidationError", "GatewayServerError",
     "GatewayTimeoutError", "GatewayConnectionError"}

\* `except GatewayAPIError` catches the base class and every subclass
IsGatewayAPIError(e) == e \in GatewayErrors

\* Subclasses whose __init__ calls super().__init__(message, status_code=<fixed>, **kwargs)
FixedStatus ==
    [GatewayAuthError |-> 401, GatewayNotFoundError |-> 404,
     GatewayRateLimitError |-> 429, GatewayValidationError |-> 422,
     GatewayServerError |-> 500, GatewayTimeoutError |-> 408]

\* Constructing exception class cls with the keyword arguments kwargs: the
\* class that ends up raised.  A subclass that fixes status_code itself and
\* is also handed status_code in kwargs passes the keyword twice to
\* GatewayAPIError.__init__, which is a TypeError at the call.
Construct(cls, kwargs) ==
    IF cls \in DOMAIN FixedStatus /\ "status_code" \in kwargs
    THEN "TypeError"
    ELSE cls

----------------------------------------------------------------------------
(* What the session does with one request: src/hdruk_gateway/client.py:147 *)
(* session.request either raises a requests exception or hands back a     *)
(* response; the session is injectable (client.py:76), so every outcome   *)
(* below can be produced.                                                  *)

JsonType == "application/json"
CsvType == "text/csv"
HtmlType == "text/html"

Response(status, retry_after, content_type, body) ==
    [kind |-> "response", status |-> status, retry_after |-> retry_after,
     content_type |-> content_type, body |-> body]

SessionRaises(exc) == [kind |-> exc]

\* requests.exceptions.Timeout, ConnectionError, and any other RequestException
SessionExceptions ==
    {SessionRaises("Timeout"), SessionRaises("ConnectionError"),
     SessionRaises("RequestException")}

\* Retry-After header of a 429: absent, delta-seconds, or an HTTP-date
RetryAfterValues == {"absent", "120", "Wed, 21 Oct 2026 07:28:00 GMT"}

\* int(retry_after) if retry_after else None
ParseRetryAfter(h) ==
    IF h = "absent" THEN Return(None)
    ELSE IF h = "120" THEN Return(120)
    ELSE Raise("ValueError")

\* 501 is a 5xx outside the status_forcelist of the retry adapter (client.py:96)
ErrorStatuses == {400, 401, 403, 404, 422, 429, 500, 501, 502, 503}

ErrorResponses ==
    {Response(s, "absent", JsonType, EmptyMap) : s \in ErrorStatuses}
    \cup {Response(429, h, JsonType, EmptyMap) : h \in RetryAfterValues}

FailureOutcomes == SessionExceptions \cup ErrorResponses

\* JSON values held under the "data" key carry their Python type
JList(xs) == [t |-> "list", items |-> xs]
JDict(m) == [t |-> "dict", map |-> m]
JStr(x) == [t |-> "str", text |-> x]

\* a 2xx response with a JSON body, and one with a non-JSON text body
JsonOk(body) == Response(200, "absent", JsonType, body)
TextOk(content_type, text) == Response(200, "absent", content_type, JStr(text))

TextResponses == {TextOk(CsvType, "id,title"), TextOk(HtmlType, "<html>"), TextOk(HtmlType, "")}

\* GatewayClient._request, from the point where session.request has produced
\* outcome o: the parsed body it returns or the exception it raises.
_request(o) ==
    IF o.kind = "Timeout" THEN Raise(Construct("GatewayTimeoutError", {"request_url"}))
    ELSE IF o.kind = "ConnectionError" THEN Raise(Construct("GatewayConnectionError", {"request_url"}))
    ELSE IF o.kind = "RequestException" THEN Raise(Construct("GatewayAPIError", {"request_url"}))
    ELSE IF o.status = 401 THEN Raise(Construct("GatewayAuthError", {"request_url"}))
    ELSE IF o.status = 404 THEN Raise(Construct("GatewayNotFoundError", {"request_url"}))
    ELSE IF o.status = 429 THEN
        IF ParseRetryAfter(o.retry_after).kind = "raise"
        THEN ParseRetryAfter(o.retry_after)
        ELSE Raise(Construct("GatewayRateLimitError", {"retry_after", "request_url"}))
    ELSE IF o.status >= 500 THEN
        Raise(Construct("GatewayServerError", {"status_code", "request_url"}))
    ELSE IF o.status >= 400 THEN
        Raise(Construct("GatewayAPIError", {"status_code", "response_data", "request_url"}))
    ELSE IF o.content_type = JsonType THEN Return(o.body)
    ELSE IF o.content_type = CsvType THEN
        Return([csv_data |-> o.body, content_type |-> "csv"])
    ELSE Return([data |-> o.body, content_type |-> o.content_type])

----------------------------------------------------------------------------
(* Resource mappers: src/hdruk_gateway/client.py, src/hdruk_gateway/models.py *)

\* models.py:24-30
DatasetStatusValues == {"draft", "pending", "active", "rejected", "archived"}

\* DatasetStatus(value): the Enum lookup raises ValueError for a non-member
DatasetStatus(value) ==
    IF value \in DatasetStatusValues THEN Return(value) ELSE Raise("ValueError")

\* models.py:33-37
AccessTypeValues == {"open", "safeguarded", "controlled"}

\* models.py:40-47
OrganisationSectorValues == {"NHS", "Academia", "Government", "Charity", "Commercial", "Other"}

\* an attribute holding None where an object could be (metadata, publisher, team)
NoObject == [none |-> TRUE]

\* Python truthiness of an Optional[str]
Truthy(v) == v \notin {None, ""}

\* Python truthiness of a dict
TruthyDict(m) == m # EmptyMap

\* the dict under key k, {} when the key is absent: m.get(k, {})
GetDict(m, k) == Get(m, k, EmptyMap)

\* Team(id=team_data.get("id", ""), name=team_data.get("name", "")) if
\* data.get("team") is truthy, else None; only _parse_dataset reads pid
TeamOf(data) ==
    IF TruthyDict(GetDict(data, "team"))
    THEN [none |-> FALSE, id |-> Get(data.team, "id", ""), name |-> Get(data.team, "name", ""),
          pid |-> Get(data.team, "pid", None)]
    ELSE NoObject

\* the nested metadata of _parse_dataset: client.py:214-241
MetadataOf(data) ==
    LET latest == GetDict(GetDict(GetDict(data, "latest_metadata"), "metadata"), "metadata")
        raw_metadata == IF TruthyDict(latest) THEN latest ELSE GetDict(data, "metadata")
        publisher_data == GetDict(raw_metadata, "publisher")
        publisher ==
            IF TruthyDict(publisher_data)
            THEN [none |-> FALSE, id |-> Get(publisher_data, "id", None),
                  name |-> Get(publisher_data, "name", ""),
                  logo |-> Get(publisher_data, "logo", None),
                  description |-> Get(publisher_data, "description", None),
                  contact_point |-> Get(publisher_data, "contactPoint", None)]
            ELSE NoObject
    IN  IF TruthyDict(raw_metadata)
        THEN [none |-> FALSE,
              identifier |-> Get(raw_metadata, "identifier", None),
              version |-> Get(raw_metadata, "version", None),
              issued |-> Get(raw_metadata, "issued", None),
              modified |-> Get(raw_metadata, "modified", None),
              title |-> Get(raw_metadata, "title", Get(data, "name", "")),
              abstract |-> Get(raw_metadata, "abstract", None),
              description |-> Get(raw_metadata, "description", None),
              keywords |-> Get(raw_metadata, "keywords", <<>>),
              publisher |-> publisher,
              spatial |-> Get(raw_metadata, "spatial", None),
              access_rights |-> Get(raw_metadata, "accessRights", None)]
        ELSE NoObject

\* GatewayClient._parse_dataset
_parse_dataset(data) ==
    LET status == DatasetStatus(Get(data, "status", "active"))
    IN  IF status.kind = "raise" THEN status
        ELSE Return([type |-> "Dataset",
                     id |-> Get(data, "id", ""),
                     pid |-> Get(data, "pid", None),
                     status |-> status.value,
                     metadata |-> MetadataOf(data),
                     team_id |-> Get(data, "team_id", None),
                     team |-> TeamOf(data),
                     user_id |-> Get(data, "user_id", None),
                     durs_count |-> Get(data, "durs_count", 0),
                     publications_count |-> Get(data, "publications_count", 0),
                     tools_count |-> Get(data, "tools_count", 0),
                     collections_count |-> Get(data, "collections_count", 0),
                     is_cohort_discovery |-> Get(data, "is_cohort_discovery", FALSE),
                     versions |-> Get(data, "versions", <<>>),
                     _raw |-> data])

\* the organisation_sector of _parse_data_use: client.py:374-379
SectorOf(data) ==
    LET sector == Get(data, "organisation_sector", None)
    IN  IF ~Truthy(sector) THEN sector
        ELSE IF sector \in OrganisationSectorValues THEN sector
        ELSE "Other"

\* the access_type of _parse_data_use: client.py:381-386
AccessTypeOf(data) ==
    LET access_type == Get(data, "access_type", None)
    IN  IF ~Truthy(access_type) THEN access_type
        ELSE IF access_type \in AccessTypeValues THEN access_type
        ELSE None

\* GatewayClient._parse_data_use
_parse_data_use(data) ==
    Return([type |-> "DataUseRegister",
            id |-> Get(data, "id", ""),
            project_id_text |-> Get(data, "project_id_text", None),
            project_title |-> Get(data, "project_title", Get(data, "projectTitle", "")),
            organisation_id |-> Get(data, "organisation_id", None),
            organisation_name |-> Get(data, "organisation_name", Get(data, "organisationName", None)),
            organisation_sector |-> SectorOf(data),
            project_start_date |-> Get(data, "project_start_date", Get(data, "projectStartDate", None)),
            project_end_date |-> Get(data, "project_end_date", Get(data, "projectEndDate", None)),
            access_date |-> Get(data, "access_date", Get(data, "accessDate", None)),
            latest_approval_date |->
                Get(data, "latest_approval_date", Get(data, "latestApprovalDate", None)),
            lay_summary |-> Get(data, "lay_summary", Get(data, "laySummary", None)),
            technical_summary |-> Get(data, "technical_summary", Get(data, "technicalSummary", None)),
            public_benefit_statement |->
                Get(data, "public_benefit_statement", Get(data, "publicBenefitStatement", None)),
            datasets |-> Get(data, "datasets", Get(data, "datasetTitles", <<>>)),
            keywords |-> Get(data, "keywords", <<>>),
            access_type |-> AccessTypeOf(data),
            team |-> TeamOf(data),
            status |-> Get(data, "status", None),
            _raw |-> data])

\* GatewayClient._parse_publication
_parse_publication(data) ==
    Return([type |-> "Publication",
            id |-> Get(data, "id", ""),
            paper_title |-> Get(data, "paper_title", Get(data, "paperTitle", "")),
            authors |-> Get(data, "authors", None),
            year_of_publication |->
                Get(data, "year_of_publication", Get(data, "yearOfPublication", None)),
            journal_name |-> Get(data, "journal_name", Get(data, "journalName", None)),
            paper_doi |-> Get(data, "paper_doi", Get(data, "paperDoi", None)),
            publication_type |-> Get(data, "publication_type", Get(data, "publicationType", None)),
            abstract |-> Get(data, "abstract", None),
            full_text_url |-> Get(data, "full_text_url", None),
            url |-> Get(data, "url", None),
            status |-> Get(data, "status", None),
            _raw |-> data])

\* GatewayClient._parse_tool
_parse_tool(data) ==
    Return([type |-> "Tool",
            id |-> Get(data, "id", ""),
            name |-> Get(data, "name", ""),
            description |-> Get(data, "description", None),
            url |-> Get(data, "url", None),
            license |-> Get(data, "license", None),
            tech_stack |-> Get(data, "tech_stack", None),
            programming_languages |-> Get(data, "programming_languages", <<>>),
            tags |-> Get(data, "tags", <<>>),
            team |-> TeamOf(data),
            enabled |-> Get(data, "enabled", TRUE),
            _raw |-> data])

\* GatewayClient._parse_collection
_parse_collection(data) ==
    Return([type |-> "Collection",
            id |-> Get(data, "id", ""),
            name |-> Get(data, "name", ""),
            description |-> Get(data, "description", None),
            keywords |-> Get(data, "keywords", <<>>),
            enabled |-> Get(data, "enabled", TRUE),
            status |-> Get(data, "status", None),
            public |-> Get(data, "public", TRUE),
            team |-> TeamOf(data),
            _raw |-> data])

\* GatewayClient._parse_team
_parse_team(data) ==
    Return([type |-> "Team",
            id |-> Get(data, "id", ""),
            pid |-> Get(data, "pid", None),
            name |-> Get(data, "name", ""),
            introduction |-> Get(data, "introduction", None),
            contact_point |-> Get(data, "contact_point", None),
            team_logo |-> Get(data, "team_logo", None),
            url |-> Get(data, "url", None),
            member_of |-> Get(data, "member_of", None),
            enabled |-> Get(data, "enabled", TRUE),
            allows_messaging |-> Get(data, "allows_messaging", FALSE),
            is_dar |-> Get(data, "is_dar", FALSE),
            _raw |-> data])

\* models.py:14-21
DATASET == "dataset"
DATA_USE_REGISTER == "dataUseRegister"
PUBLICATION == "publication"
TOOL == "tool"
COLLECTION == "collection"
TEAM == "team"

SearchTypes == {DATASET, DATA_USE_REGISTER, PUBLICATION, TOOL, COLLECTION}

\* the mapper of each resource type
Parse(rtype, data) ==
    CASE rtype = DATASET -> _parse_dataset(data)
      [] rtype = DATA_USE_REGISTER -> _parse_data_use(data)
      [] rtype = PUBLICATION -> _parse_publication(data)
      [] rtype = TOOL -> _parse_tool(data)
      [] rtype = COLLECTION -> _parse_collection(data)
      [] rtype = TEAM -> _parse_team(data)

\* [parse(d) for d in items if d] over a list of dicts: the first mapper
\* exception aborts the comprehension
RECURSIVE ParseEach(_, _)
ParseEach(rtype, items) ==
    IF items = <<>> THEN Return(<<>>)
    ELSE IF ~TruthyDict(Head(items)) THEN ParseEach(rtype, Tail(items))
    ELSE LET first == Parse(rtype, Head(items))
             rest == ParseEach(rtype, Tail(items))
         IN  IF first.kind = "raise" THEN first
             ELSE IF rest.kind = "raise" THEN rest
             ELSE Return(<<first.value>> \o rest.value)

\* [parse(d) for d in data if d] where data is whatever sits under "data":
\* iterating a str yields its characters and iterating a dict its keys, and
\* neither has .get, so the mapper raises AttributeError on the first one
ParseData(rtype, data) ==
    IF data.t = "list" THEN ParseEach(rtype, data.items)
    ELSE IF data.t = "str" THEN (IF data.text = "" THEN Return(<<>>) ELSE Raise("AttributeError"))
    ELSE (IF TruthyDict(data.map) THEN Raise("AttributeError") ELSE Return(<<>>))

\* parse(response.get("data", response)) of the single-resource getters
ParseOne(rtype, response) ==
    IF "data" \in DOMAIN response
    THEN (IF response["data"].t = "dict" THEN Parse(rtype, response["data"].map)
          ELSE Raise("AttributeError"))
    ELSE Parse(rtype, response)

----------------------------------------------------------------------------
(* SearchFilters: src/hdruk_gateway/models.py:420-500 *)

DEFAULT_PER_PAGE == 25
MIN_SEARCH_LENGTH == 3

\* filters=None
NoFilters == [none |-> TRUE]

\* SearchFilters(...) with the dataclass defaults for the fields not given
SearchFilters(geographic_coverage, publisher, keywords) ==
    [none |-> FALSE, query |-> <<>>, resource_type |-> None,
     geographic_coverage |-> geographic_coverage, publisher |-> publisher,
     organisation_sector |-> <<>>, keywords |-> keywords,
     page |-> 1, per_page |-> 25, sort_by |-> "relevance", sort_order |-> "desc"]

\* SearchFilters.to_dict: unset fields are left out, pagination and sorting
\* are always written
to_dict(f) ==
    LET optional ==
            {k \in {"search", "type", "geographicCoverage", "publisher",
                    "organisationSector", "keywords"} :
                CASE k = "search" -> f.query # <<>>
                  [] k = "type" -> f.resource_type # None
                  [] k = "geographicCoverage" -> f.geographic_coverage # <<>>
                  [] k = "publisher" -> f.publisher # <<>>
                  [] k = "organisationSector" -> f.organisation_sector # <<>>
                  [] k = "keywords" -> f.keywords # <<>>}
    IN  [k \in optional \cup {"page", "perPage", "sortBy", "sortOrder"} |->
            CASE k = "search" -> f.query
              [] k = "type" -> f.resource_type
              [] k = "geographicCoverage" -> f.geographic_coverage
              [] k = "publisher" -> f.publisher
              [] k = "organisationSector" -> f.organisation_sector
              [] k = "keywords" -> f.keywords
              [] k = "page" -> f.page
              [] k = "perPage" -> f.per_page
              [] k = "sortBy" -> f.sort_by
              [] k = "sortOrder" -> f.sort_order]

----------------------------------------------------------------------------
(* GatewayClient operations: src/hdruk_gateway/client.py                   *)
(* Each operator takes the arguments of the call and the outcome o the     *)
(* session produces for its request, and yields ret (what the operation    *)
(* returns or raises) and sent (the requests it handed to the session).    *)

PostSearch(params) == [method |-> "POST", endpoint |-> "/search", body |-> params]
GetRequest(endpoint, params) == [method |-> "GET", endpoint |-> endpoint, body |-> params]

\* try: ... except GatewayAPIError: return []
BestEffort(rtype, r) ==
    IF r.kind = "raise"
    THEN (IF IsGatewayAPIError(r.error) THEN Return(<<>>) ELSE r)
    ELSE ParseData(rtype, Get(r.value, "data", JList(<<>>)))

\* search_datasets with the test of the query length left out
search_datasets_unchecked(query, filters, page, per_page, o) ==
    LET params == [search |-> query, type |-> "dataset", page |-> page, perPage |-> per_page]
        body == IF filters.none THEN params ELSE Update(params, to_dict(filters))
    IN  [ret |-> BestEffort(DATASET, _request(o)), sent |-> <<PostSearch(body)>>]

search_datasets(query, filters, page, per_page, o) ==
    IF query # <<>> /\ Len(query) < MIN_SEARCH_LENGTH
    THEN [ret |-> Return(<<>>), sent |-> <<>>]
    ELSE LET params == [search |-> query, type |-> "dataset", page |-> page, perPage |-> per_page]
             body == IF filters.none THEN params ELSE Update(params, to_dict(filters))
         IN  [ret |-> BestEffort(DATASET, _request(o)), sent |-> <<PostSearch(body)>>]

\* called by the unified search without publisher / organisation_sector
search_data_uses(query, page, per_page, o) ==
    LET params == [search |-> query, type |-> "dataUseRegister", page |-> page, perPage |-> per_page]
    IN  [ret |-> BestEffort(DATA_USE_REGISTER, _request(o)), sent |-> <<PostSearch(params)>>]

search_publications(query, page, per_page, o) ==
    LET params == [search |-> query, type |-> "publication", page |-> page, perPage |-> per_page]
    IN  [ret |-> BestEffort(PUBLICATION, _request(o)), sent |-> <<PostSearch(params)>>]

search_tools(query, page, per_page, o) ==
    LET params == [search |-> query, type |-> "tool", page |-> page, perPage |-> per_page]
    IN  [ret |-> BestEffort(TOOL, _request(o)), sent |-> <<PostSearch(params)>>]

search_collections(query, page, per_page, o) ==
    LET params == [search |-> query, type |-> "collection", page |-> page, perPage |-> per_page]
    IN  [ret |-> BestEffort(COLLECTION, _request(o)), sent |-> <<PostSearch(params)>>]

\* export_data_uses: a "data" that is not a list gives []
export_data_uses(o) ==
    LET r == _request(o)
    IN  [ret |-> IF r.kind = "raise"
                 THEN (IF IsGatewayAPIError(r.error) THEN Return(<<>>) ELSE r)
                 ELSE LET data == Get(r.value, "data", JList(<<>>))
                      IN  IF data.t = "list" THEN ParseEach(DATA_USE_REGISTER, data.items)
                          ELSE Return(<<>>),
         sent |-> <<GetRequest("/dur/export", EmptyMap)>>]

\* the search_<resource> the unified search calls for a resource type
SearchOf(rtype, query, filters, page, per_page, o) ==
    CASE rtype = DATASET -> search_datasets(query, filters, page, per_page, o)
      [] rtype = DATA_USE_REGISTER -> search_data_uses(query, page, per_page, o)
      [] rtype = PUBLICATION -> search_publications(query, page, per_page, o)
      [] rtype = TOOL -> search_tools(query, page, per_page, o)
      [] rtype = COLLECTION -> search_collections(query, page, per_page, o)

\* endpoint of the single-resource getter of each type
GetterEndpoint ==
    [dataset |-> "/datasets/{id}", dataUseRegister |-> "/dur/{id}",
     publication |-> "/publications/{id}", tool |-> "/tools/{id}",
     collection |-> "/collections/{id}", team |-> "/teams/{id}"]

GetterTypes == DOMAIN GetterEndpoint

\* get_dataset, get_data_use, get_publication, get_tool, get_collection,
\* get_team: no try/except, whatever _request or the mapper raises goes up
get_resource(rtype, o) ==
    LET r == _request(o)
    IN  [ret |-> IF r.kind = "raise" THEN r ELSE ParseOne(rtype, r.value),
         sent |-> <<GetRequest(GetterEndpoint[rtype], EmptyMap)>>]

----------------------------------------------------------------------------
(* Unified search: src/hdruk_gateway/client.py:681-728 *)

DATA_PROVIDER == "dataProvider"

\* resource_types=None
DefaultResourceTypes == <<DATASET, DATA_USE_REGISTER, PUBLICATION, TOOL, COLLECTION>>

\* SearchResult(): every list empty (models.py:549-553)
EmptySearchResult ==
    [datasets |-> <<>>, data_uses |-> <<>>, publications |-> <<>>,
     tools |-> <<>>, collections |-> <<>>]

\* SearchResult.total_results (models.py:562-571)
total_results(r) ==
    Len(r.datasets) + Len(r.data_uses) + Len(r.publications) + Len(r.tools) + Len(r.collections)

\* an assignment that puts the publications into result.tools and the
\* tools into result.publications
FieldOf_swapped ==
    [dataset |-> "datasets", dataUseRegister |-> "data_uses",
     publication |-> "tools", tool |-> "publications", collection |-> "collections"]

\* the SearchResult field the unified search assigns for a resource type
FieldOf ==
    [dataset |-> "datasets", dataUseRegister |-> "data_uses",
     publication |-> "publications", tool |-> "tools", collection |-> "collections"]

----------------------------------------------------------------------------
(* Pagination: src/hdruk_gateway/models.py:503-542, client.py:326-366 *)

\* PaginatedResponse.from_api_response (data and the two page fields)
from_api_response(response) ==
    [data |-> Get(response, "data", JList(<<>>)),
     current_page |-> Get(response, "current_page", Get(response, "currentPage", 1)),
     last_page |-> Get(response, "last_page", Get(response, "lastPage", 1))]

\* has_more with the comparison made inclusive
has_more_inclusive(p) == p.current_page <= p.last_page

\* PaginatedResponse.has_more
has_more(p) == p.current_page < p.last_page

\* [parse(d) for d in data]: no truthiness filter on the list endpoint
RECURSIVE ParseAll(_, _)
ParseAll(rtype, items) ==
    IF items = <<>> THEN Return(<<>>)
    ELSE LET first == Parse(rtype, Head(items))
             rest == ParseAll(rtype, Tail(items))
         IN  IF first.kind = "raise" THEN first
             ELSE IF rest.kind = "raise" THEN rest
             ELSE Return(<<first.value>> \o rest.value)

\* GatewayClient.list_datasets: errors of the transport and the mapper go up
list_datasets(page, per_page, o) ==
    LET r == _request(o)
        sent == <<GetRequest("/datasets", [page |-> page, perPage |-> per_page])>>
    IN  IF r.kind = "raise" THEN [ret |-> r, sent |-> sent]
        ELSE LET paginated == from_api_response(r.value)
                 parsed == IF paginated.data.t = "list"
                           THEN ParseAll(DATASET, paginated.data.items)
                           ELSE ParseData(DATASET, paginated.data)
             IN  [ret |-> IF parsed.kind = "raise" THEN parsed
                          ELSE Return([data |-> parsed.value,
                                       current_page |-> paginated.current_page,
                                       last_page |-> paginated.last_page]),
                  sent |-> sent]

----------------------------------------------------------------------------
(* The environment: arguments of the calls and answers of the remote API *)

\* characters of the queries handed to the client operations
QueryAlphabet == {"a", " "}

ClientQueries == SeqsUpTo(QueryAlphabet, MaxQueryLen)

\* raw records of a response: an empty object and one record per type
RawItems(rtype) ==
    IF rtype = DATASET
    THEN {EmptyMap, [id |-> "d1", status |-> "archived"]}
    ELSE {EmptyMap, [id |-> "r1"]}

\* 2xx JSON answers of POST /search and GET /dur/export
SearchBodies(rtype) ==
    {[data |-> JList(items)] : items \in SeqsUpTo(RawItems(rtype), MaxItems)} \cup {EmptyMap}

SearchOutcomes(rtype) ==
    FailureOutcomes \cup TextResponses \cup {JsonOk(b) : b \in SearchBodies(rtype)}

\* 2xx JSON answers of a single-resource endpoint: enveloped or bare object
GetterOutcomes(rtype) ==
    FailureOutcomes \cup TextResponses
    \cup {JsonOk([data |-> JDict(d)]) : d \in RawItems(rtype) \ {EmptyMap}}
    \cup {JsonOk(d) : d \in RawItems(rtype)}

FilterChoices == {NoFilters, SearchFilters(<<>>, <<>>, <<>>)}

PerPageChoices == {1, DEFAULT_PER_PAGE}

\* answers offered to each per-type call of the unified search
UnifiedOutcomes(rtype) ==
    {Response(503, "absent", JsonType, EmptyMap), SessionRaises("Timeout"),
     JsonOk([data |-> JList(<<>>)]),
     JsonOk([data |-> JList(<<CHOOSE d \in RawItems(rtype) : d # EmptyMap>>)])}

ResourceTypeLists ==
    {ts \in SeqsUpTo(SearchTypes \cup {DATA_PROVIDER}, MaxTypes) : NoRepeat(ts)}

\* one exchange with the session: the request, what the session did with it,
\* and what _request made of that
Exchange(req, o) == [request |-> req, outcome |-> o, transport |-> _request(o)]

RECURSIVE Exchanges(_, _)
Exchanges(sent, o) ==
    IF sent = <<>> THEN <<>> ELSE <<Exchange(Head(sent), o)>> \o Exchanges(Tail(sent), o)

NoGen == [state |-> "none"]

\* no OpenSAFELYJobsClient has been constructed
NoJobs == [none |-> TRUE]

\* a remote API that is not held to any pagination behaviour
AnyServer == [kind |-> "any", last_page |-> 1]

----------------------------------------------------------------------------
(* Actions of the client *)

Init ==
    /\ pc = "idle"
    /\ call = [op |-> "init"]
    /\ result = Return(None)
    /\ net = <<>>
    /\ gen = NoGen
    /\ jobs = NoJobs
    /\ server = AnyServer

\* The client keeps no state between calls: every operation reads only its
\* arguments and the answers of the session.  A behaviour is therefore one
\* call on the constructed client.
Fresh == pc = "idle" /\ call.op = "init"

\* an operation that makes at most one request and finishes in one step
Finish(c, r) ==
    /\ pc' = "idle"
    /\ call' = c
    /\ result' = r.ret
    /\ net' = Exchanges(r.sent, c.outcome)
    /\ UNCHANGED <<gen, server, jobs>>

SearchDatasets ==
    /\ Fresh
    /\ \E q \in ClientQueries, f \in FilterChoices, p \in 1..MaxPage, pp \in PerPageChoices :
         \E o \in SearchOutcomes(DATASET) :
           Finish([op |-> "search_datasets", query |-> q, filters |-> f, page |-> p,
                   per_page |-> pp, outcome |-> o],
                  search_datasets(q, f, p, pp, o))

SearchDataUses ==
    /\ Fresh
    /\ \E q \in ClientQueries, p \in 1..MaxPage, pp \in PerPageChoices :
         \E o \in SearchOutcomes(DATA_USE_REGISTER) :
           Finish([op |-> "search_data_uses", query |-> q, page |-> p, per_page |-> pp,
                   outcome |-> o],
                  search_data_uses(q, p, pp, o))

SearchPublications ==
    /\ Fresh
    /\ \E q \in ClientQueries, p \in 1..MaxPage, pp \in PerPageChoices :
         \E o \in SearchOutcomes(PUBLICATION) :
           Finish([op |-> "search_publications", query |-> q, page |-> p, per_page |-> pp,
                   outcome |-> o],
                  search_publications(q, p, pp, o))

SearchTools ==
    /\ Fresh
    /\ \E q \in ClientQueries, p \in 1..MaxPage, pp \in PerPageChoices :
         \E o \in SearchOutcomes(TOOL) :
           Finish([op |-> "search_tools", query |-> q, page |-> p, per_page |-> pp,
                   outcome |-> o],
                  search_tools(q, p, pp, o))

SearchCollections ==
    /\ Fresh
    /\ \E q \in ClientQueries, p \in 1..MaxPage, pp \in PerPageChoices :
         \E o \in SearchOutcomes(COLLECTION) :
           Finish([op |-> "search_collections", query |-> q, page |-> p, per_page |-> pp,
                   outcome |-> o],
                  search_collections(q, p, pp, o))

ExportDataUses ==
    /\ Fresh
    /\ \E o \in SearchOutcomes(DATA_USE_REGISTER) \cup {JsonOk([data |-> JDict([id |-> "r1"])])} :
           Finish([op |-> "export_data_uses", outcome |-> o], export_data_uses(o))

GetResource ==
    /\ Fresh
    /\ \E t \in GetterTypes :
         \E o \in GetterOutcomes(t) :
           Finish([op |-> "get", rtype |-> t, outcome |-> o], get_resource(t, o))

\* GatewayClient.search, entry: resource_types defaults to the five types,
\* result = SearchResult()
SearchBegin ==
    /\ Fresh
    /\ \E q \in ClientQueries, f \in FilterChoices, p \in 1..MaxPage,
          ts \in ResourceTypeLists \cup {DefaultResourceTypes} :
         call' = [op |-> "search", query |-> q, filters |-> f, page |-> p,
                  per_page |-> DEFAULT_PER_PAGE, resource_types |-> ts]
    /\ pc' = "search"
    /\ result' = [kind |-> "running", value |-> EmptySearchResult, done |-> 0]
    /\ net' = <<>>
    /\ UNCHANGED <<gen, server, jobs>>

\* one iteration of `for resource_type in resource_types`: the per-type
\* search runs to completion; a GatewayAPIError it raised would be logged and
\* skipped, any other exception leaves the loop and the function
SearchStep ==
    /\ pc = "search"
    /\ result.done < Len(call.resource_types)
    /\ LET t == call.resource_types[result.done + 1]
       IN  IF t \notin SearchTypes
           THEN /\ result' = [result EXCEPT !.done = @ + 1]
                /\ UNCHANGED <<pc, net>>
           ELSE \E o \in UnifiedOutcomes(t) :
                  LET r == SearchOf(t, call.query, call.filters, call.page, call.per_page, o)
                  IN  /\ net' = net \o Exchanges(r.sent, o)
                      /\ IF r.ret.kind = "return"
                         THEN /\ result' = [result EXCEPT !.done = @ + 1,
                                                          !.value[FieldOf[t]] = r.ret.value]
                              /\ pc' = pc
                         ELSE IF IsGatewayAPIError(r.ret.error)
                         THEN /\ result' = [result EXCEPT !.done = @ + 1]
                              /\ pc' = pc
                         ELSE /\ result' = r.ret
                              /\ pc' = "idle"
    /\ UNCHANGED <<call, gen, server, jobs>>

\* return result
SearchReturn ==
    /\ pc = "search"
    /\ result.done = Len(call.resource_types)
    /\ result' = Return(result.value)
    /\ pc' = "idle"
    /\ UNCHANGED <<call, net, gen, server, jobs>>

NextClient ==
    \/ SearchDatasets
    \/ SearchDataUses
    \/ SearchPublications
    \/ SearchTools
    \/ SearchCollections
    \/ ExportDataUses
    \/ GetResource
    \/ SearchBegin
    \/ SearchStep
    \/ SearchReturn

SpecClient == Init /\ [][NextClient]_vars

----------------------------------------------------------------------------
(* The lazy dataset iterator: src/hdruk_gateway/client.py:346-366          *)
(* gen is the generator object the consumer holds.  Its body runs only     *)
(* inside next(): from the start (state "created") or from the yield it is *)
(* suspended at, up to the next yield, the end of the body or an exception.*)

ITER_PER_PAGE == 100

\* the generator is cut off when it would ask for a page beyond this one
MaxIterPage == MaxLastPage + 1

\* the records of one page: the first n of a fixed list of distinct records
PageRecords == [i \in 1..MaxItems |-> [id |-> i, status |-> "active"]]

PageLists == {SubSeq(PageRecords, 1, n) : n \in 0..MaxItems}

\* How the remote API paginates GET /datasets during one iteration: it echoes
\* the requested page number, or reports page 1 whatever was asked, each with
\* a fixed last_page; or it answers without the pagination envelope
Servers ==
    {[kind |-> k, last_page |-> l] : k \in {"echo", "stuck"}, l \in 0..MaxLastPage}
    \cup {[kind |-> "bare", last_page |-> 1]}

\* answers of server s to GET /datasets?page=page, and two failures
ListOutcomes(s, page) ==
    (IF s.kind = "bare"
     THEN {JsonOk([data |-> JList(items)]) : items \in PageLists} \cup {JsonOk(EmptyMap)}
     ELSE {JsonOk([data |-> JList(items),
                   current_page |-> IF s.kind = "echo" THEN page ELSE 1,
                   last_page |-> s.last_page]) : items \in PageLists})
    \cup {Response(503, "absent", JsonType, EmptyMap), SessionRaises("Timeout")}

\* the constructed client, facing one of the servers
InitIter ==
    /\ pc = "idle"
    /\ call = [op |-> "init"]
    /\ result = Return(None)
    /\ net = <<>>
    /\ gen = NoGen
    /\ jobs = NoJobs
    /\ server \in Servers

\* iter_datasets(per_page): calling a generator function runs none of its body
IterCreate ==
    /\ Fresh
    /\ gen.state = "none"
    /\ gen' = [state |-> "created", page |-> 1, buffer |-> <<>>, more |-> FALSE,
               fetched |-> <<>>, yielded |-> <<>>]
    /\ call' = [op |-> "iter_datasets", per_page |-> ITER_PER_PAGE]
    /\ UNCHANGED <<pc, result, net, server, jobs>>

\* next(gen): resume the body.  At a yield inside `for dataset in
\* response.data` the next record of the page is yielded; when the page is
\* used up, `if not response.has_more: break` ends the generator, else
\* page += 1 and the loop goes on to fetch
IterNext ==
    /\ pc = "idle"
    /\ gen.state \in {"created", "suspended"}
    /\ IF gen.state = "created"
       THEN /\ pc' = "iter"
            /\ UNCHANGED <<gen, result>>
       ELSE IF gen.buffer # <<>>
       THEN /\ gen' = [gen EXCEPT !.buffer = Tail(@), !.yielded = Append(@, Head(gen.buffer))]
            /\ result' = Return(Head(gen.buffer))
            /\ pc' = pc
       ELSE IF ~gen.more
       THEN /\ gen' = [gen EXCEPT !.state = "done"]
            /\ result' = Raise("StopIteration")
            /\ pc' = pc
       ELSE /\ gen.page + 1 <= MaxIterPage
            /\ gen' = [gen EXCEPT !.page = @ + 1]
            /\ pc' = "iter"
            /\ UNCHANGED result
    /\ UNCHANGED <<call, net, server, jobs>>

\* response = self.list_datasets(page=page, per_page=per_page), then the
\* first yield of that page, or the has_more test when the page is empty
IterFetch ==
    /\ pc = "iter"
    /\ \E o \in ListOutcomes(server, gen.page) :
         LET r == list_datasets(gen.page, call.per_page, o)
         IN  /\ net' = net \o Exchanges(r.sent, o)
             /\ IF r.ret.kind = "raise"
                THEN /\ gen' = [gen EXCEPT !.state = "raised"]
                     /\ result' = r.ret
                     /\ pc' = "idle"
                ELSE LET page == r.ret.value
                         got == [gen EXCEPT !.more = has_more(page),
                                            !.fetched = @ \o page.data]
                     IN  IF page.data # <<>>
                         THEN /\ gen' = [got EXCEPT !.state = "suspended",
                                                    !.buffer = Tail(page.data),
                                                    !.yielded = Append(@, Head(page.data))]
                              /\ result' = Return(Head(page.data))
                              /\ pc' = "idle"
                         ELSE IF ~has_more(page)
                         THEN /\ gen' = [got EXCEPT !.state = "done", !.buffer = <<>>]
                              /\ result' = Raise("StopIteration")
                              /\ pc' = "idle"
                         ELSE /\ gen.page + 1 <= MaxIterPage
                              /\ gen' = [got EXCEPT !.page = @ + 1, !.buffer = <<>>]
                              /\ pc' = pc
                              /\ UNCHANGED result
    /\ UNCHANGED <<call, server, jobs>>

NextIter ==
    \/ IterCreate
    \/ IterNext
    \/ IterFetch

SpecIter == InitIter /\ [][NextIter]_vars

\* the consumer keeps calling next() and every request is answered
SpecIterLive == SpecIter /\ WF_vars(NextIter)

\* the consumer drops the generator while it is suspended at a yield: the
\* body has no try/finally, so closing it runs nothing
IterAbandon ==
    /\ pc = "idle"
    /\ gen.state = "suspended"
    /\ gen' = [gen EXCEPT !.state = "abandoned"]
    /\ UNCHANGED <<pc, call, result, net, server, jobs>>

\* a new call that goes on from the page of the earlier generator
IterAgain_resumed ==
    /\ pc = "idle"
    /\ gen.state # "none"
    /\ gen' = [state |-> "created", page |-> gen.page, buffer |-> <<>>, more |-> FALSE,
               fetched |-> <<>>, yielded |-> <<>>]
    /\ call' = [op |-> "iter_datasets", per_page |-> ITER_PER_PAGE, earlier |-> gen.page]
    /\ net' = <<>>
    /\ UNCHANGED <<pc, result, server, jobs>>

\* iter_datasets(per_page) called again, whatever became of the earlier
\* generator: page is a local of the new generator and starts at 1; the call
\* keeps the page the earlier generator had reached, and net goes on as the
\* log of the new call
IterAgain ==
    /\ pc = "idle"
    /\ gen.state # "none"
    /\ gen' = [state |-> "created", page |-> 1, buffer |-> <<>>, more |-> FALSE,
               fetched |-> <<>>, yielded |-> <<>>]
    /\ call' = [op |-> "iter_datasets", per_page |-> ITER_PER_PAGE, earlier |-> gen.page]
    /\ net' = <<>>
    /\ UNCHANGED <<pc, result, server, jobs>>

NextIterLazy ==
    \/ IterCreate
    \/ IterNext
    \/ IterFetch
    \/ IterAbandon
    \/ IterAgain

\* consumers that may stop asking and may call iter_datasets again
SpecIterLazy == InitIter /\ [][NextIterLazy]_vars

----------------------------------------------------------------------------
(* Strings.  A str is a tuple of one-character strings. *)

UpperLetters ==
    <<"A", "B", "C", "D", "E", "F", "G", "H", "I", "J", "K", "L", "M",
      "N", "O", "P", "Q", "R", "S", "T", "U", "V", "W", "X", "Y", "Z">>

LowerLetters ==
    <<"a", "b", "c", "d", "e", "f", "g", "h", "i", "j", "k", "l", "m",
      "n", "o", "p", "q", "r", "s", "t", "u", "v", "w", "x", "y", "z">>

Digits == {"0", "1", "2", "3", "4", "5", "6", "7", "8", "9"}

UpperSet == {UpperLetters[i] : i \in 1..26}
LowerSet == {LowerLetters[i] : i \in 1..26}

ToLower == [c \in UpperSet |-> LowerLetters[CHOOSE i \in 1..26 : UpperLetters[i] = c]]
ToUpper == [c \in LowerSet |-> UpperLetters[CHOOSE i \in 1..26 : LowerLetters[i] = c]]

IsLetter(c) == c \in UpperSet \/ c \in LowerSet

LowerChar(c) == IF c \in UpperSet THEN ToLower[c] ELSE c
UpperChar(c) == IF c \in LowerSet THEN ToUpper[c] ELSE c

\* str.lower()
Lower(s) == [i \in 1..Len(s) |-> LowerChar(s[i])]

\* str.title(): the first letter of every run of letters in upper case, the
\* other letters in lower case
Title(s) ==
    [i \in 1..Len(s) |->
        IF IsLetter(s[i]) /\ (i = 1 \/ ~IsLetter(s[i - 1]))
        THEN UpperChar(s[i]) ELSE LowerChar(s[i])]

\* \w of the re module
IsWordChar(c) == IsLetter(c) \/ c \in Digits \/ c = "_"

\* \s: the whitespace str.split() separates on
IsSpace(c) == c \in {" ", "\t", "\n"}

\* needle occurs in hay at offset i (0-based)
OccursAt(hay, needle, i) ==
    /\ i + Len(needle) <= Len(hay)
    /\ \A j \in 1..Len(needle) : hay[i + j] = needle[j]

\* needle in hay
Contains(hay, needle) == \E i \in 0..(Len(hay) - Len(needle)) : OccursAt(hay, needle, i)

\* \b between s[p] and s[p+1] (p = 0: before the first character)
WordBoundary(s, p) ==
    LET before == p >= 1 /\ IsWordChar(s[p])
        after == p + 1 <= Len(s) /\ IsWordChar(s[p + 1])
    IN  before # after

\* the pattern \b<term>\b matches s at offset i, ignoring case (ls and lterm
\* are s and the term in lower case)
WordMatchAt(s, ls, lterm, i) ==
    /\ OccursAt(ls, lterm, i)
    /\ WordBoundary(s, i)
    /\ WordBoundary(s, i + Len(lterm))

\* re.sub(rf'\b{term}\b', '', s, flags=re.IGNORECASE): the matches are found
\* left to right in s itself and do not overlap
RECURSIVE ReSubFrom(_, _, _, _)
ReSubFrom(s, ls, lterm, i) ==
    IF i >= Len(s) THEN <<>>
    ELSE IF WordMatchAt(s, ls, lterm, i) THEN ReSubFrom(s, ls, lterm, i + Len(lterm))
    ELSE <<s[i + 1]>> \o ReSubFrom(s, ls, lterm, i + 1)

RemoveWord(s, term) == ReSubFrom(s, Lower(s), Lower(term), 0)

\* RemoveWord for each term of a list, in list order
RECURSIVE RemoveWords(_, _)
RemoveWords(s, terms) ==
    IF terms = <<>> THEN s ELSE RemoveWords(RemoveWord(s, Head(terms)), Tail(terms))

\* ' '.join(s.split()): runs of whitespace become one space, none at the ends
RECURSIVE JoinSplitFrom(_, _, _)
JoinSplitFrom(s, i, started) ==
    IF i > Len(s) THEN <<>>
    ELSE IF IsSpace(s[i]) THEN JoinSplitFrom(s, i + 1, started)
    ELSE LET sep == IF started /\ IsSpace(s[i - 1]) THEN <<" ">> ELSE <<>>
         IN  sep \o <<s[i]>> \o JoinSplitFrom(s, i + 1, TRUE)

\* ''.join(s.split()): the words run together
JoinSplit_concat(s) == SelectSeq(s, LAMBDA c : ~IsSpace(c))

JoinSplit(s) == JoinSplitFrom(s, 1, FALSE)

----------------------------------------------------------------------------
(* Keyword tables of DatasetSearcher: src/hdruk_gateway/search.py:78-114   *)
(* Each table is the dict in insertion order.                              *)

\* search.py:78-87
CONDITION_KEYWORDS ==
    <<
      [key |-> <<"d", "i", "a", "b", "e", "t", "e", "s">>,
       words |-> <<<<"d", "i", "a", "b", "e", "t", "e", "s">>,
                   <<"d", "i", "a", "b", "e", "t", "i", "c">>,
                   <<"g", "l", "u", "c", "o", "s", "e">>,
                   <<"h", "b", "a", "1", "c">>,
                   <<"i", "n", "s", "u", "l", "i", "n">>>>],
      [key |-> <<"c", "a", "r", "d", "i", "o", "v", "a", "s", "c", "u", "l", "a", "r">>,
       words |-> <<<<"h", "e", "a", "r", "t">>,
                   <<"c", "a", "r", "d", "i", "a", "c">>,
                   <<"c", "a", "r", "d", "i", "o", "v", "a", "s", "c", "u", "l", "a", "r">>,
                   <<"c", "v", "d">>,
                   <<"s", "t", "r", "o", "k", "e">>,
                   <<"h", "y", "p", "e", "r", "t", "e", "n", "s", "i", "o", "n">>>>],
      [key |-> <<"c", "a", "n", "c", "e", "r">>,
       words |-> <<<<"c", "a", "n", "c", "e", "r">>,
                   <<"o", "n", "c", "o", "l", "o", "g", "y">>,
                   <<"t", "u", "m", "o", "u", "r">>,
                   <<"t", "u", "m", "o", "r">>,
                   <<"m", "a", "l", "i", "g", "n", "a", "n", "t">>,
                   <<"n", "e", "o", "p", "l", "a", "s", "m">>>>],
      [key |-> <<"m", "e", "n", "t", "a", "l", " ", "h", "e", "a", "l", "t", "h">>,
       words |-> <<<<"m", "e", "n", "t", "a", "l">>,
                   <<"p", "s", "y", "c", "h", "i", "a", "t", "r", "i", "c">>,
                   <<"d", "e", "p", "r", "e", "s", "s", "i", "o", "n">>,
                   <<"a", "n", "x", "i", "e", "t", "y">>,
                   <<"p", "s", "y", "c", "h", "o", "s", "i", "s">>>>],
      [key |-> <<"r", "e", "s", "p", "i", "r", "a", "t", "o", "r", "y">>,
       words |-> <<<<"r", "e", "s", "p", "i", "r", "a", "t", "o", "r", "y">>,
                   <<"l", "u", "n", "g">>,
                   <<"p", "u", "l", "m", "o", "n", "a", "r", "y">>,
                   <<"a", "s", "t", "h", "m", "a">>,
                   <<"c", "o", "p", "d">>>>],
      [key |-> <<"m", "a", "t", "e", "r", "n", "a", "l">>,
       words |-> <<<<"m", "a", "t", "e", "r", "n", "a", "l">>,
                   <<"p", "r", "e", "g", "n", "a", "n", "c", "y">>,
                   <<"p", "r", "e", "n", "a", "t", "a", "l">>,
                   <<"p", "o", "s", "t", "n", "a", "t", "a", "l">>,
                   <<"o", "b", "s", "t", "e", "t", "r", "i", "c">>>>],
      [key |-> <<"c", "o", "v", "i", "d">>,
       words |-> <<<<"c", "o", "v", "i", "d">>,
                   <<"c", "o", "r", "o", "n", "a", "v", "i", "r", "u", "s">>,
                   <<"s", "a", "r", "s", "-", "c", "o", "v", "-", "2">>,
                   <<"p", "a", "n", "d", "e", "m", "i", "c">>>>],
      [key |-> <<"g", "e", "n", "o", "m", "i", "c", "s">>,
       words |-> <<<<"g", "e", "n", "o", "m", "i", "c">>,
                   <<"g", "e", "n", "e", "t", "i", "c">>,
                   <<"d", "n", "a">>,
                   <<"w", "g", "s">>,
                   <<"g", "e", "n", "o", "m", "e">>,
                   <<"s", "e", "q", "u", "e", "n", "c", "i", "n", "g">>>>]
    >>

\* search.py:89-95
REGION_KEYWORDS ==
    <<
      [key |-> <<"e", "n", "g", "l", "a", "n", "d">>,
       words |-> <<<<"e", "n", "g", "l", "a", "n", "d">>,
                   <<"e", "n", "g", "l", "i", "s", "h">>,
                   <<"n", "h", "s", " ", "e", "n", "g", "l", "a", "n", "d">>>>],
      [key |-> <<"w", "a", "l", "e", "s">>,
       words |-> <<<<"w", "a", "l", "e", "s">>,
                   <<"w", "e", "l", "s", "h">>,
                   <<"s", "a", "i", "l">>>>],
      [key |-> <<"s", "c", "o", "t", "l", "a", "n", "d">>,
       words |-> <<<<"s", "c", "o", "t", "l", "a", "n", "d">>,
                   <<"s", "c", "o", "t", "t", "i", "s", "h">>,
                   <<"r", "d", "s">>,
                   <<"r", "e", "s", "e", "a", "r", "c", "h", " ", "d", "a", "t", "a", " ", "s", "c", "o", "t", "l", "a", "n", "d">>>>],
      [key |-> <<"n", "o", "r", "t", "h", "e", "r", "n", " ", "i", "r", "e", "l", "a", "n", "d">>,
       words |-> <<<<"n", "o", "r", "t", "h", "e", "r", "n", " ", "i", "r", "e", "l", "a", "n", "d">>,
                   <<"n", "i">>>>],
      [key |-> <<"u", "k">>,
       words |-> <<<<"u", "k">>,
                   <<"u", "n", "i", "t", "e", "d", " ", "k", "i", "n", "g", "d", "o", "m">>,
                   <<"b", "r", "i", "t", "i", "s", "h">>,
                   <<"n", "a", "t", "i", "o", "n", "a", "l">>>>]
    >>

\* search.py:97-104
DATA_TYPE_KEYWORDS ==
    <<
      [key |-> <<"p", "r", "i", "m", "a", "r", "y", " ", "c", "a", "r", "e">>,
       words |-> <<<<"p", "r", "i", "m", "a", "r", "y", " ", "c", "a", "r", "e">>,
                   <<"g", "p">>,
                   <<"g", "e", "n", "e", "r", "a", "l", " ", "p", "r", "a", "c", "t", "i", "c", "e">>,
                   <<"c", "p", "r", "d">>>>],
      [key |-> <<"h", "o", "s", "p", "i", "t", "a", "l">>,
       words |-> <<<<"h", "o", "s", "p", "i", "t", "a", "l">>,
                   <<"h", "e", "s">>,
                   <<"s", "e", "c", "o", "n", "d", "a", "r", "y", " ", "c", "a", "r", "e">>,
                   <<"i", "n", "p", "a", "t", "i", "e", "n", "t">>,
                   <<"o", "u", "t", "p", "a", "t", "i", "e", "n", "t">>>>],
      [key |-> <<"r", "e", "g", "i", "s", "t", "r", "y">>,
       words |-> <<<<"r", "e", "g", "i", "s", "t", "r", "y">>,
                   <<"r", "e", "g", "i", "s", "t", "e", "r">>,
                   <<"c", "a", "n", "c", "e", "r", " ", "r", "e", "g", "i", "s", "t", "r", "y">>>>],
      [key |-> <<"c", "o", "h", "o", "r", "t">>,
       words |-> <<<<"c", "o", "h", "o", "r", "t">>,
                   <<"b", "i", "o", "b", "a", "n", "k">>,
                   <<"l", "o", "n", "g", "i", "t", "u", "d", "i", "n", "a", "l">>>>],
      [key |-> <<"i", "m", "a", "g", "i", "n", "g">>,
       words |-> <<<<"i", "m", "a", "g", "i", "n", "g">>,
                   <<"m", "r", "i">>,
                   <<"c", "t">>,
                   <<"x", "-", "r", "a", "y">>,
                   <<"r", "a", "d", "i", "o", "l", "o", "g", "y">>>>],
      [key |-> <<"g", "e", "n", "o", "m", "i", "c">>,
       words |-> <<<<"g", "e", "n", "o", "m", "i", "c">>,
                   <<"g", "e", "n", "e", "t", "i", "c">>,
                   <<"w", "g", "s">>,
                   <<"e", "x", "o", "m", "e">>>>]
    >>

\* search.py:106-114: alias -> canonical names
PUBLISHER_ALIASES ==
    <<
      [key |-> <<"c", "p", "r", "d">>,
       words |-> <<<<"C", "P", "R", "D">>,
                   <<"C", "l", "i", "n", "i", "c", "a", "l", " ", "P", "r", "a", "c", "t", "i", "c", "e", " ", "R", "e", "s", "e", "a", "r", "c", "h", " ", "D", "a", "t", "a", "l", "i", "n", "k">>>>],
      [key |-> <<"o", "p", "e", "n", "s", "a", "f", "e", "l", "y">>,
       words |-> <<<<"O", "p", "e", "n", "S", "A", "F", "E", "L", "Y">>>>],
      [key |-> <<"u", "k", " ", "b", "i", "o", "b", "a", "n", "k">>,
       words |-> <<<<"U", "K", " ", "B", "i", "o", "b", "a", "n", "k">>>>],
      [key |-> <<"s", "a", "i", "l">>,
       words |-> <<<<"S", "A", "I", "L", " ", "D", "a", "t", "a", "b", "a", "n", "k">>,
                   <<"S", "A", "I", "L">>>>],
      [key |-> <<"n", "h", "s", " ", "e", "n", "g", "l", "a", "n", "d">>,
       words |-> <<<<"N", "H", "S", " ", "E", "n", "g", "l", "a", "n", "d">>,
                   <<"N", "H", "S", " ", "D", "i", "g", "i", "t", "a", "l">>>>],
      [key |-> <<"g", "e", "n", "o", "m", "i", "c", "s", " ", "e", "n", "g", "l", "a", "n", "d">>,
       words |-> <<<<"G", "e", "n", "o", "m", "i", "c", "s", " ", "E", "n", "g", "l", "a", "n", "d">>>>],
      [key |-> <<"r", "d", "s">>,
       words |-> <<<<"R", "e", "s", "e", "a", "r", "c", "h", " ", "D", "a", "t", "a", " ", "S", "c", "o", "t", "l", "a", "n", "d">>>>]
    >>

\* search.py:173
filler_words ==
    <<<<"d", "a", "t", "a">>,
      <<"d", "a", "t", "a", "s", "e", "t">>,
      <<"d", "a", "t", "a", "s", "e", "t", "s">>,
      <<"i", "n">>,
      <<"f", "o", "r">>,
      <<"a", "b", "o", "u", "t">>,
      <<"t", "h", "e">>,
      <<"w", "i", "t", "h">>,
      <<"f", "r", "o", "m">>>>
----------------------------------------------------------------------------
(* DatasetSearcher.parse_query: src/hdruk_gateway/search.py:125-179 *)

\* `for keyword in keywords: if keyword in query_lower: ...; break`: the
\* first synonym of the list that is a substring of the query, if any
RECURSIVE FirstIn(_, _)
FirstIn(words, query_lower) ==
    IF words = <<>> THEN <<>>
    ELSE IF Contains(query_lower, Head(words)) THEN <<Head(words)>>
    ELSE FirstIn(Tail(words), query_lower)

\* the canonical keys of a table with a synonym in the query, in table order
RECURSIVE MatchedKeys(_, _)
MatchedKeys(table, query_lower) ==
    IF table = <<>> THEN <<>>
    ELSE (IF FirstIn(Head(table).words, query_lower) # <<>> THEN <<Head(table).key>> ELSE <<>>)
         \o MatchedKeys(Tail(table), query_lower)

\* the synonym that matched for each canonical key, in table order
RECURSIVE MatchedWords(_, _)
MatchedWords(table, query_lower) ==
    IF table = <<>> THEN <<>>
    ELSE FirstIn(Head(table).words, query_lower) \o MatchedWords(Tail(table), query_lower)

\* the aliases of PUBLISHER_ALIASES that are substrings of the query
RECURSIVE MatchedAliases(_, _)
MatchedAliases(table, query_lower) ==
    IF table = <<>> THEN <<>>
    ELSE (IF Contains(query_lower, Head(table).key) THEN <<Head(table)>> ELSE <<>>)
         \o MatchedAliases(Tail(table), query_lower)

RECURSIVE Flatten(_)
Flatten(lists) == IF lists = <<>> THEN <<>> ELSE Head(lists) \o Flatten(Tail(lists))

MapTitle(keys) == [i \in 1..Len(keys) |-> Title(keys[i])]

parse_query(query) ==
    LET query_lower == Lower(query)
        conditions == MatchedKeys(CONDITION_KEYWORDS, query_lower)
        regions == MatchedKeys(REGION_KEYWORDS, query_lower)
        region_terms == MatchedWords(REGION_KEYWORDS, query_lower)
        data_types == MatchedKeys(DATA_TYPE_KEYWORDS, query_lower)
        aliases == MatchedAliases(PUBLISHER_ALIASES, query_lower)
        publisher == Flatten([i \in 1..Len(aliases) |-> aliases[i].words])
        terms_to_remove == region_terms \o [i \in 1..Len(aliases) |-> aliases[i].key]
        cleaned_query == JoinSplit(RemoveWords(RemoveWords(query, terms_to_remove), filler_words))
    IN  [cleaned |-> cleaned_query,
         terms_to_remove |-> terms_to_remove,
         filters |-> SearchFilters(MapTitle(regions), publisher, conditions \o data_types)]

----------------------------------------------------------------------------
(* DatasetSearcher._generate_suggestions: src/hdruk_gateway/search.py:308-334 *)

\* SearchSuggestion(text, type, score); the score is kept in tenths (0.8 -> 8)
SearchSuggestion(text, type, score) == [text |-> text, type |-> type, score |-> score]

\* `for alias, names in PUBLISHER_ALIASES.items(): if alias not in query.lower()`
RECURSIVE PublisherSuggestions(_, _)
PublisherSuggestions(table, query) ==
    IF table = <<>> THEN <<>>
    ELSE (IF ~Contains(Lower(query), Head(table).key)
          THEN <<SearchSuggestion(query \o <<" ">> \o Head(table).words[1], "publisher", 8)>>
          ELSE <<>>)
         \o PublisherSuggestions(Tail(table), query)

\* ConditionSuggestions without `if results.datasets`
RECURSIVE ConditionSuggestions_unguarded(_, _, _)
ConditionSuggestions_unguarded(table, query, results) ==
    IF table = <<>> THEN <<>>
    ELSE (IF /\ ~Contains(Lower(query), Head(table).key)
             /\ FirstIn(Head(table).words, Lower(query)) = <<>>
          THEN <<SearchSuggestion(query \o <<" ">> \o Head(table).key, "condition", 6)>>
          ELSE <<>>)
         \o ConditionSuggestions_unguarded(Tail(table), query, results)

\* `if condition not in query_lower and not any(k in query_lower for k in keywords)`
RECURSIVE ConditionSuggestions(_, _, _)
ConditionSuggestions(table, query, results) ==
    IF table = <<>> THEN <<>>
    ELSE (IF /\ ~Contains(Lower(query), Head(table).key)
             /\ FirstIn(Head(table).words, Lower(query)) = <<>>
             /\ results.datasets # <<>>
          THEN <<SearchSuggestion(query \o <<" ">> \o Head(table).key, "condition", 6)>>
          ELSE <<>>)
         \o ConditionSuggestions(Tail(table), query, results)

\* suggestions[:n]
Take(s, n) == SubSeq(s, 1, IF Len(s) < n THEN Len(s) ELSE n)

FewResults == 5
SuggestionLimit == 5

\* _generate_suggestions with publisher suggestions up to and including 5 datasets
_generate_suggestions_inclusive(query, results) ==
    LET publishers == IF Len(results.datasets) <= FewResults
                      THEN PublisherSuggestions(PUBLISHER_ALIASES, query)
                      ELSE <<>>
        conditions == ConditionSuggestions(CONDITION_KEYWORDS, query, results)
    IN  Take(publishers \o conditions, SuggestionLimit)

_generate_suggestions(query, results) ==
    LET publishers == IF Len(results.datasets) < FewResults
                      THEN PublisherSuggestions(PUBLISHER_ALIASES, query)
                      ELSE <<>>
        conditions == ConditionSuggestions(CONDITION_KEYWORDS, query, results)
    IN  Take(publishers \o conditions, SuggestionLimit)

----------------------------------------------------------------------------
(* Inputs of the parser and of the suggestion generator *)

MaxWords == 2        \* most vocabulary entries in one query
MaxDatasets == 5     \* most datasets in a search result

\* entries of the keyword tables and filler words the queries are built from
QueryWords ==
    <<<<"d", "i", "a", "b", "e", "t", "e", "s">>,
      <<"i", "n", "s", "u", "l", "i", "n">>,
      <<"i", "m", "a", "g", "i", "n", "g">>,
      <<"d", "a", "t", "a">>,
      <<"i", "n">>,
      <<"W", "a", "l", "e", "s">>,
      <<"u", "k">>,
      <<"u", "k", " ", "b", "i", "o", "b", "a", "n", "k">>,
      <<"n", "h", "s", " ", "e", "n", "g", "l", "a", "n", "d">>,
      <<"c", "p", "r", "d">>,
      <<"s", "a", "i", "l">>>>

RECURSIVE JoinWords(_)
JoinWords(ws) ==
    IF ws = <<>> THEN <<>>
    ELSE IF Len(ws) = 1 THEN QueryWords[ws[1]]
    ELSE QueryWords[ws[1]] \o <<" ">> \o JoinWords(Tail(ws))

\* the scenario query of the specification
ScenarioQuery == <<"d", "i", "a", "b", "e", "t", "e", "s", " ", "d", "a", "t", "a", " ", "i", "n", " ", "W", "a", "l", "e", "s">>

SearcherQueries ==
    {JoinWords(ws) : ws \in SeqsUpTo(1..Len(QueryWords), MaxWords)} \cup {ScenarioQuery}

\* the n-th raw dataset record of a result
DatasetRecord(n) == [id |-> n, status |-> "active"]

\* a SearchResult holding n datasets
ResultWith(n) ==
    [EmptySearchResult EXCEPT !.datasets = [i \in 1..n |-> _parse_dataset(DatasetRecord(i)).value]]

----------------------------------------------------------------------------
(* Dataset properties and facets: models.py:147-174, search.py:269-306 *)

\* Dataset.title
title(dataset) ==
    IF ~dataset.metadata.none /\ Truthy(dataset.metadata.title) THEN dataset.metadata.title
    ELSE Get(dataset._raw, "name", "Untitled")

\* Dataset.publisher_name
publisher_name(dataset) ==
    IF ~dataset.metadata.none /\ ~dataset.metadata.publisher.none
    THEN dataset.metadata.publisher.name
    ELSE IF ~dataset.team.none THEN dataset.team.name
    ELSE "Unknown"

\* Dataset.abstract
abstract(dataset) ==
    IF dataset.metadata.none THEN ""
    ELSE IF Truthy(dataset.metadata.abstract) THEN dataset.metadata.abstract
    ELSE IF Truthy(dataset.metadata.description) THEN dataset.metadata.description
    ELSE ""

\* counts[key] = counts.get(key, 0) + 1 over the keys in order; a dict keeps
\* its keys in the order of their first insertion
RECURSIVE CountKeys(_, _)
CountKeys(keys, counts) ==
    IF keys = <<>> THEN counts
    ELSE LET k == Head(keys)
             seen == {i \in 1..Len(counts) : counts[i].key = k}
         IN  CountKeys(Tail(keys),
                 IF seen = {} THEN Append(counts, [key |-> k, count |-> 1])
                 ELSE [i \in 1..Len(counts) |->
                          IF i \in seen THEN [key |-> k, count |-> counts[i].count + 1]
                          ELSE counts[i]])

\* an insertion that puts an item before the items of the same count
RECURSIVE InsertByCount_before(_, _)
InsertByCount_before(sorted, item) ==
    IF sorted = <<>> THEN <<item>>
    ELSE IF Head(sorted).count > item.count
         THEN <<Head(sorted)>> \o InsertByCount_before(Tail(sorted), item)
         ELSE <<item>> \o sorted

\* sorted(items, key=lambda x: -x[1]) is stable: an item goes after every item
\* of a count at least its own that precedes it
RECURSIVE InsertByCount(_, _)
InsertByCount(sorted, item) ==
    IF sorted = <<>> THEN <<item>>
    ELSE IF Head(sorted).count >= item.count
         THEN <<Head(sorted)>> \o InsertByCount(Tail(sorted), item)
         ELSE <<item>> \o sorted

RECURSIVE SortByCount(_, _)
SortByCount(items, sorted) ==
    IF items = <<>> THEN sorted
    ELSE SortByCount(Tail(items), InsertByCount(sorted, Head(items)))

\* the [:10] of the publisher buckets
FacetLimit == 10

\* DatasetSearcher._generate_facets
_generate_facets(results) ==
    LET publisher_counts ==
            CountKeys([i \in 1..Len(results.datasets) |-> publisher_name(results.datasets[i])], <<>>)
        with_sector == SelectSeq(results.data_uses, LAMBDA dur : Truthy(dur.organisation_sector))
        sector_counts ==
            CountKeys([i \in 1..Len(with_sector) |-> with_sector[i].organisation_sector], <<>>)
    IN  (IF publisher_counts # <<>>
         THEN <<[name |-> "Publisher", field |-> "publisher",
                 buckets |-> Take(SortByCount(publisher_counts, <<>>), FacetLimit)]>>
         ELSE <<>>)
        \o
        (IF sector_counts # <<>>
         THEN <<[name |-> "Organisation Sector", field |-> "organisation_sector",
                 buckets |-> SortByCount(sector_counts, <<>>)]>>
         ELSE <<>>)

----------------------------------------------------------------------------
(* Inputs of the facet generator *)

MaxPublishers == 11    \* most distinct publishers in one result

\* where the publisher name of a raw dataset record comes from: the metadata
\* publisher, the team, or nowhere
PublisherSources ==
    {[via |-> "publisher", name |-> "NHS England"], [via |-> "publisher", name |-> "CPRD"],
     [via |-> "team", name |-> "SAIL"], [via |-> "none", name |-> "Unknown"]}

\* the n-th raw dataset record of a result, published by src
DatasetBy(n, src) ==
    IF src.via = "publisher"
    THEN [id |-> n, metadata |-> [title |-> "t", publisher |-> [name |-> src.name]]]
    ELSE IF src.via = "team" THEN [id |-> n, team |-> [name |-> src.name]]
    ELSE [id |-> n, status |-> "active"]

\* n records of n distinct publishers followed by second records of the
\* publishers from the k-th on
DistinctPublishers(n, k) ==
    [i \in 1..n |-> DatasetBy(i, [via |-> "publisher", name |-> "P" \o ToString(i)])]
    \o [j \in 1..(n - k + 1) |->
            DatasetBy(n + j, [via |-> "publisher", name |-> "P" \o ToString(k + j - 1)])]

RawDatasetLists ==
    {[i \in 1..Len(s) |-> DatasetBy(i, s[i])] : s \in SeqsUpTo(PublisherSources, MaxDatasets - 2)}
    \cup UNION {{DistinctPublishers(n, k) : k \in {1, n, n + 1}} : n \in 1..MaxPublishers}

\* raw data use records by organisation sector ("" for a record without one)
RawDataUseLists ==
    {[i \in 1..Len(s) |-> IF s[i] = "" THEN [id |-> i] ELSE [id |-> i, organisation_sector |-> s[i]]] :
        s \in SeqsUpTo({"NHS", "Academia", "Pharma", ""}, MaxItems)}

\* the SearchResult of the parsed records
ResultOf(datasets, data_uses) ==
    [EmptySearchResult EXCEPT !.datasets = ParseEach(DATASET, datasets).value,
                              !.data_uses = ParseEach(DATA_USE_REGISTER, data_uses).value]

InitFacets ==
    /\ pc = "idle"
    /\ \E ds \in RawDatasetLists, us \in RawDataUseLists :
         call = [op |-> "_generate_facets", results |-> ResultOf(ds, us)]
    /\ result = [kind |-> "pending"]
    /\ net = <<>>
    /\ gen = NoGen
    /\ jobs = NoJobs
    /\ server = AnyServer

GenerateFacets ==
    /\ call.op = "_generate_facets"
    /\ result.kind = "pending"
    /\ result' = Return(_generate_facets(call.results))
    /\ UNCHANGED <<pc, call, net, gen, server, jobs>>

NextFacets == GenerateFacets

SpecFacets == InitFacets /\ [][NextFacets]_vars

----------------------------------------------------------------------------
(* The query parser as a function of its input *)

\* a query without a region or publisher word, holding "rds" inside a word
SubstringQuery == <<"r", "e", "c", "o", "r", "d", "s">>

InitParse ==
    /\ pc = "idle"
    /\ \E q \in SearcherQueries \cup {SubstringQuery} : call = [op |-> "parse_query", query |-> q, round |-> 1]
    /\ result = [kind |-> "pending"]
    /\ net = <<>>
    /\ gen = NoGen
    /\ jobs = NoJobs
    /\ server = AnyServer

\* cleaned_query, filters = parse_query(query)
ParseQuery ==
    /\ call.op = "parse_query"
    /\ result.kind = "pending"
    /\ result' = Return(parse_query(call.query))
    /\ UNCHANGED <<pc, call, net, gen, server, jobs>>

\* parse_query applied to the cleaned term it has just returned
ParseCleaned ==
    /\ call.op = "parse_query"
    /\ call.round = 1
    /\ result.kind = "return"
    /\ call' = [op |-> "parse_query", query |-> result.value.cleaned, round |-> 2,
                original |-> call.query, first |-> result.value]
    /\ result' = Return(parse_query(result.value.cleaned))
    /\ UNCHANGED <<pc, net, gen, server, jobs>>

NextParse ==
    \/ ParseQuery
    \/ ParseCleaned

SpecParse == InitParse /\ [][NextParse]_vars

----------------------------------------------------------------------------
(* The suggestion generator as a function of its inputs *)

\* a query naming three of the seven publisher aliases
ThreeAliases == <<"c", "p", "r", "d", " ", "s", "a", "i", "l", " ", "r", "d", "s">>

InitSuggest ==
    /\ pc = "idle"
    /\ \E q \in SearcherQueries \cup {ThreeAliases}, n \in 0..MaxDatasets :
         call = [op |-> "_generate_suggestions", query |-> q, results |-> ResultWith(n)]
    /\ result = [kind |-> "pending"]
    /\ net = <<>>
    /\ gen = NoGen
    /\ jobs = NoJobs
    /\ server = AnyServer

GenerateSuggestions ==
    /\ call.op = "_generate_suggestions"
    /\ result.kind = "pending"
    /\ result' = Return(_generate_suggestions(call.query, call.results))
    /\ UNCHANGED <<pc, call, net, gen, server, jobs>>

NextSuggest == GenerateSuggestions

SpecSuggest == InitSuggest /\ [][NextSuggest]_vars

----------------------------------------------------------------------------
(* DatasetSearcher.search: src/hdruk_gateway/search.py:181-267 *)

\* sep.join(parts)
RECURSIVE Join(_, _)
Join(sep, parts) ==
    IF parts = <<>> THEN <<>>
    ELSE IF Len(parts) = 1 THEN parts[1]
    ELSE parts[1] \o sep \o Join(sep, Tail(parts))

\* DatasetSearcher._generate_interpretation
_generate_interpretation(query, filters) ==
    LET comma == <<",", " ">>
        parts ==
            (IF filters.keywords # <<>>
             THEN <<<<"t", "o", "p", "i", "c", "s", ":", " ">> \o Join(comma, filters.keywords)>> ELSE <<>>)
            \o (IF filters.geographic_coverage # <<>>
                THEN <<<<"r", "e", "g", "i", "o", "n", ":", " ">> \o Join(comma, filters.geographic_coverage)>> ELSE <<>>)
            \o (IF filters.publisher # <<>>
                THEN <<<<"p", "u", "b", "l", "i", "s", "h", "e", "r", "s", ":", " ">> \o Join(comma, filters.publisher)>> ELSE <<>>)
    IN  IF parts # <<>> THEN <<"S", "e", "a", "r", "c", "h", "i", "n", "g", " ", "f", "o", "r", ":", " ">> \o Join(<<" ", "|", " ">>, parts)
        ELSE <<"S", "e", "a", "r", "c", "h", "i", "n", "g", " ", "f", "o", "r", ":", " ">> \o query

\* the queries handed to the searcher: every vocabulary entry and the scenario
\* a query of seven characters whose only non-filler word has two
ShortTermQuery == <<"g", "p", " ", "d", "a", "t", "a">>

SearcherInputs ==
    {QueryWords[i] : i \in 1..Len(QueryWords)} \cup {ScenarioQuery, ShortTermQuery}

\* time.time() - start_time, in whole milliseconds
SearchTimes == {0, 1}

\* the term without the fallback to the raw query
SearchTerm_cleaned(query, parse) ==
    IF parse THEN parse_query(query).cleaned ELSE query

\* query=search_term or query, where search_term is the cleaned term of
\* parse_query or, without parsing, the query itself
SearchTerm(query, parse) ==
    LET search_term == IF parse THEN parse_query(query).cleaned ELSE query
    IN  IF search_term # <<>> THEN search_term ELSE query

\* search(query, parse_query, include_data_uses, include_publications, page)
\* up to the call of self.client.search
SearcherBegin ==
    /\ Fresh
    /\ \E query \in SearcherInputs, parse \in BOOLEAN, include_data_uses \in BOOLEAN,
          include_publications \in BOOLEAN, page \in 1..MaxPage :
         LET parsed == parse_query(query)
             filters == [(IF parse THEN parsed.filters ELSE SearchFilters(<<>>, <<>>, <<>>))
                            EXCEPT !.page = page, !.per_page = DEFAULT_PER_PAGE]
             resource_types ==
                 <<DATASET>>
                 \o (IF include_data_uses THEN <<DATA_USE_REGISTER>> ELSE <<>>)
                 \o (IF include_publications THEN <<PUBLICATION>> ELSE <<>>)
         IN  call' = [op |-> "search",
                      query |-> SearchTerm(query, parse),
                      filters |-> IF parse THEN filters ELSE NoFilters,
                      page |-> page, per_page |-> DEFAULT_PER_PAGE,
                      resource_types |-> resource_types,
                      searcher |-> [query |-> query, parse_query |-> parse,
                                    include_data_uses |-> include_data_uses,
                                    include_publications |-> include_publications,
                                    query_interpretation |->
                                        IF parse THEN _generate_interpretation(query, parsed.filters)
                                        ELSE None]]
    /\ pc' = "search"
    /\ result' = [kind |-> "running", value |-> EmptySearchResult, done |-> 0]
    /\ net' = <<>>
    /\ UNCHANGED <<gen, server, jobs>>

\* search after self.client.search came back: facets, suggestions and the
\* EnhancedSearchResult, or the exception of the client passed on
SearcherFinish ==
    /\ pc = "idle"
    /\ call.op = "search"
    /\ \E ms \in SearchTimes :
         result' = IF result.kind = "raise" THEN result
                   ELSE Return([results |-> result.value,
                                facets |-> _generate_facets(result.value),
                                suggestions |-> _generate_suggestions(call.searcher.query, result.value),
                                query_interpretation |-> call.searcher.query_interpretation,
                                total_count |-> total_results(result.value),
                                search_time_ms |-> ms])
    /\ call' = [call EXCEPT !.op = "DatasetSearcher.search"]
    /\ UNCHANGED <<pc, net, gen, server, jobs>>

\* search.py:374-392: filters = SearchFilters(publisher=[publisher_name]);
\* return self.client.search_datasets("", filters=filters, page=page, per_page=per_page)
get_publisher_datasets(name, page, per_page, o) ==
    search_datasets(<<>>, SearchFilters(<<>>, <<name>>, <<>>), page, per_page, o)

GetPublisherDatasets ==
    /\ Fresh
    /\ \E k \in 1..Len(PUBLISHER_ALIASES), p \in 1..MaxPage, pp \in PerPageChoices :
         \E o \in SearchOutcomes(DATASET) :
           Finish([op |-> "get_publisher_datasets",
                   publisher_name |-> PUBLISHER_ALIASES[k].words[1],
                   page |-> p, per_page |-> pp, outcome |-> o],
                  get_publisher_datasets(PUBLISHER_ALIASES[k].words[1], p, pp, o))

NextSearcher ==
    \/ GetPublisherDatasets
    \/ SearcherBegin
    \/ SearchStep
    \/ SearchReturn
    \/ SearcherFinish

SpecSearcher == Init /\ [][NextSearcher]_vars

----------------------------------------------------------------------------
(* Inputs of the mappers: partial raw records *)

MaxFields == 2        \* most keys present in one raw record

\* the keys a raw record of each resource type may hold: the keys the mapper
\* reads and the camelCase spelling of every multi-word field
RawKeys(rtype) ==
    CASE rtype = DATASET ->
          {"id", "pid", "status", "team_id", "teamId", "user_id", "userId",
           "durs_count", "dursCount", "publications_count",
           "publicationsCount", "tools_count", "toolsCount",
           "collections_count", "collectionsCount", "is_cohort_discovery",
           "isCohortDiscovery", "versions", "metadata", "latest_metadata",
           "name", "team"}
      [] rtype = DATA_USE_REGISTER ->
          {"id", "project_id_text", "projectIdText", "project_title",
           "projectTitle", "organisation_id", "organisationId",
           "organisation_name", "organisationName", "organisation_sector",
           "organisationSector", "project_start_date", "projectStartDate",
           "project_end_date", "projectEndDate", "access_date", "accessDate",
           "latest_approval_date", "latestApprovalDate", "lay_summary",
           "laySummary", "technical_summary", "technicalSummary",
           "public_benefit_statement", "publicBenefitStatement", "datasets",
           "keywords", "access_type", "accessType", "status", "team",
           "datasetTitles"}
      [] rtype = PUBLICATION ->
          {"id", "paper_title", "paperTitle", "authors",
           "year_of_publication", "yearOfPublication", "journal_name",
           "journalName", "paper_doi", "paperDoi", "publication_type",
           "publicationType", "abstract", "full_text_url", "fullTextUrl",
           "url", "status"}
      [] rtype = TOOL ->
          {"id", "name", "description", "url", "license", "tech_stack",
           "techStack", "programming_languages", "programmingLanguages",
           "tags", "enabled", "team"}
      [] rtype = COLLECTION ->
          {"id", "name", "description", "keywords", "enabled", "status",
           "public", "team"}
      [] rtype = TEAM ->
          {"id", "pid", "name", "introduction", "contact_point",
           "contactPoint", "team_logo", "teamLogo", "url", "member_of",
           "memberOf", "enabled", "allows_messaging", "allowsMessaging",
           "is_dar", "isDar"}

IntKeys == {"collectionsCount", "collections_count", "dursCount",
            "durs_count", "publicationsCount", "publications_count",
            "toolsCount", "tools_count"}
ListKeys == {"datasetTitles", "datasets", "keywords", "programmingLanguages",
             "programming_languages", "tags", "versions"}
BoolKeys == {"allowsMessaging", "allows_messaging", "enabled",
             "isCohortDiscovery", "isDar", "is_cohort_discovery", "is_dar",
             "public"}

\* values the server may send under a key
SampleValues(k) ==
    CASE k = "status" -> {"archived", "retired"}
      [] k = "organisation_sector" -> {"NHS", "Pharma", ""}
      [] k = "organisationSector" -> {"NHS"}
      [] k = "access_type" -> {"open", "secret"}
      [] k = "accessType" -> {"open"}
      [] k = "team" -> {[id |-> "t1", name |-> "Team"], EmptyMap}
      [] k = "metadata" ->
           {[title |-> "T", accessRights |-> "r", publisher |-> [name |-> "P", contactPoint |-> "c"]],
            [abstract |-> "A"]}
      [] k = "latest_metadata" ->
           {[metadata |-> [metadata |-> [title |-> "L"]]], [metadata |-> EmptyMap]}
      [] k \in IntKeys -> {3}
      [] k \in ListKeys -> {<<"x">>}
      [] k \in BoolKeys -> {TRUE, FALSE}
      [] OTHER -> {"v:" \o k}

\* the record holding the given <<key, value>> pairs
RecordOf(pairs) ==
    IF pairs = <<>> THEN EmptyMap
    ELSE [k \in {pairs[i][1] : i \in 1..Len(pairs)} |->
             pairs[CHOOSE i \in 1..Len(pairs) : pairs[i][1] = k][2]]

\* the raw records of a resource type with at most MaxFields keys
RawRecords(rtype) ==
    LET pairs == UNION {{<<k, v>> : v \in SampleValues(k)} : k \in RawKeys(rtype)}
    IN  {RecordOf(ps) : ps \in {s \in SeqsUpTo(pairs, MaxFields) :
                                   \A i, j \in 1..Len(s) : i # j => s[i][1] # s[j][1]}}

MapperTypes == {DATASET, DATA_USE_REGISTER, PUBLICATION, TOOL, COLLECTION, TEAM}

InitMapper ==
    /\ pc = "idle"
    /\ \E rtype \in MapperTypes : \E data \in RawRecords(rtype) :
         call = [op |-> "parse", rtype |-> rtype, data |-> data]
    /\ result = [kind |-> "pending"]
    /\ net = <<>>
    /\ gen = NoGen
    /\ jobs = NoJobs
    /\ server = AnyServer

\* self._parse_<resource>(data)
MapRecord ==
    /\ call.op = "parse"
    /\ result.kind = "pending"
    /\ result' = Parse(call.rtype, call.data)
    /\ UNCHANGED <<pc, call, net, gen, server, jobs>>

NextMapper == MapRecord

SpecMapper == InitMapper /\ [][NextMapper]_vars

----------------------------------------------------------------------------
(* Exports: src/hdruk_gateway/search.py:394-494 *)

\* the gateway_url property of the domain objects: models.py:172-174,
\* 233-235, 269-271
gateway_url(object) ==
    "https://www.healthdatagateway.org/"
    \o (CASE object.type = "Dataset" -> "dataset"
          [] object.type = "DataUseRegister" -> "datause"
          [] object.type = "Publication" -> "publication")
    \o "/" \o object.id

\* str(n) of a natural number
RECURSIVE IntText(_)
IntText(n) ==
    IF n < 10 THEN SubSeq("0123456789", n + 1, n + 1)
    ELSE IntText(n \div 10) \o SubSeq("0123456789", (n % 10) + 1, (n % 10) + 1)

\* int(text) of a decimal numeral
RECURSIVE TextInt(_)
TextInt(text) ==
    LET last == SubSeq(text, Len(text), Len(text))
        digit == (CHOOSE d \in 1..10 : SubSeq("0123456789", d, d) = last) - 1
    IN  IF Len(text) = 1 THEN digit
        ELSE 10 * TextInt(SubSeq(text, 1, Len(text) - 1)) + digit

\* JSON tokens besides JList, JDict and JStr: null and a number literal
JNull == [t |-> "null"]
JNum(literal) == [t |-> "num", literal |-> literal]

\* json.dumps of an Optional[str] and of an int
DumpText(v) == IF v = None THEN JNull ELSE JStr(v)
DumpInt(n) == JNum(IntText(n))

\* json.loads: the Python value of a JSON document
RECURSIVE loads(_)
loads(doc) ==
    CASE doc.t = "null" -> None
      [] doc.t = "str" -> doc.text
      [] doc.t = "num" -> TextInt(doc.literal)
      [] doc.t = "list" -> [i \in 1..Len(doc.items) |-> loads(doc.items[i])]
      [] doc.t = "dict" -> [k \in DOMAIN doc.map |-> loads(doc.map[k])]

\* export_results_json with total_count taken from the exported arrays
export_results_json_counted(results) ==
    JDict([datasets |-> JList(<<>>), data_uses |-> JList(<<>>), publications |-> JList(<<>>),
           total_count |->
               DumpInt(Len(results.datasets) + Len(results.data_uses) + Len(results.publications))])

\* DatasetSearcher.export_results_json: json.dumps(data, indent=2)
export_results_json(results) ==
    JDict([datasets |->
               JList([i \in 1..Len(results.datasets) |->
                   LET ds == results.datasets[i]
                   IN  JDict([id |-> DumpText(ds.id),
                              title |-> DumpText(title(ds)),
                              publisher |-> DumpText(publisher_name(ds)),
                              abstract |-> DumpText(abstract(ds)),
                              publications_count |-> DumpInt(ds.publications_count),
                              data_uses_count |-> DumpInt(ds.durs_count),
                              gateway_url |-> DumpText(gateway_url(ds))])]),
           data_uses |->
               JList([i \in 1..Len(results.data_uses) |->
                   LET dur == results.data_uses[i]
                   IN  JDict([id |-> DumpText(dur.id),
                              project_title |-> DumpText(dur.project_title),
                              organisation |-> DumpText(dur.organisation_name),
                              sector |-> DumpText(IF Truthy(dur.organisation_sector)
                                                  THEN dur.organisation_sector ELSE None),
                              lay_summary |-> DumpText(dur.lay_summary),
                              approval_date |-> DumpText(dur.latest_approval_date),
                              gateway_url |-> DumpText(gateway_url(dur))])]),
           publications |->
               JList([i \in 1..Len(results.publications) |->
                   LET pub == results.publications[i]
                   IN  JDict([id |-> DumpText(pub.id),
                              title |-> DumpText(pub.paper_title),
                              authors |-> DumpText(pub.authors),
                              year |-> DumpText(pub.year_of_publication),
                              doi |-> DumpText(pub.paper_doi),
                              gateway_url |-> DumpText(gateway_url(pub))])]),
           total_count |-> DumpInt(total_results(results))])

\* the longest free text a CSV cell keeps in full
TruncateAt == 200

\* text[:200] + "..." if text and len(text) > 200 else text
Truncated(text) ==
    IF Truthy(text) /\ Len(text) > TruncateAt THEN SubSeq(text, 1, TruncateAt) \o "..." ELSE text

\* csv.writer writes None as the empty string
CsvText(v) == IF v = None THEN "" ELSE v

\* DatasetSearcher.export_results_csv: the rows of the text written, a
\* writerow([]) being a row without cells
export_results_csv(results) ==
    (IF results.datasets # <<>>
     THEN <<<<"Type", "ID", "Title", "Publisher", "Abstract",
              "Publications", "Data Uses", "Gateway URL">>>>
          \o [i \in 1..Len(results.datasets) |->
                 LET ds == results.datasets[i]
                 IN  <<"Dataset", CsvText(ds.id), CsvText(title(ds)), CsvText(publisher_name(ds)),
                       CsvText(Truncated(abstract(ds))), IntText(ds.publications_count),
                       IntText(ds.durs_count), gateway_url(ds)>>]
     ELSE <<>>)
    \o
    (IF results.data_uses # <<>>
     THEN <<<<>>,
            <<"Type", "ID", "Project Title", "Organisation", "Sector",
              "Lay Summary", "Approval Date", "Gateway URL">>>>
          \o [i \in 1..Len(results.data_uses) |->
                 LET dur == results.data_uses[i]
                 IN  <<"Data Use", CsvText(dur.id), CsvText(dur.project_title),
                       CsvText(dur.organisation_name),
                       IF Truthy(dur.organisation_sector) THEN dur.organisation_sector ELSE "",
                       CsvText(Truncated(dur.lay_summary)), CsvText(dur.latest_approval_date),
                       gateway_url(dur)>>]
     ELSE <<>>)

----------------------------------------------------------------------------
(* Inputs of the exports *)

RECURSIVE Repeat(_, _)
Repeat(text, n) ==
    IF n = 0 THEN ""
    ELSE LET half == Repeat(text, n \div 2)
         IN  half \o half \o (IF n % 2 = 1 THEN text ELSE "")

\* the i-th raw record of a resource type; every second dataset has an
\* abstract and every second data use a lay summary of 201 characters
ExportRecord(rtype, i) ==
    CASE rtype = DATASET ->
           [id |-> "d" \o IntText(i), publications_count |-> i, durs_count |-> 10 * i,
            metadata |-> [title |-> "Title", publisher |-> [name |-> "CPRD"],
                          abstract |-> IF i % 2 = 0 THEN Repeat("x", TruncateAt + 1) ELSE "short"]]
      [] rtype = DATA_USE_REGISTER ->
           [id |-> "u" \o IntText(i), project_title |-> "Project", organisation_sector |-> "NHS",
            lay_summary |-> IF i % 2 = 0 THEN Repeat("y", TruncateAt + 1) ELSE "lay"]
      [] rtype = PUBLICATION -> [id |-> "p" \o IntText(i), paper_title |-> "Paper", paper_doi |-> "10.1/x"]
      [] rtype = TOOL -> [id |-> "t" \o IntText(i), name |-> "Tool"]
      [] rtype = COLLECTION -> [id |-> "c" \o IntText(i), name |-> "Collection"]

\* the SearchResult holding sizes[t] parsed records of each resource type t
ResultOfSizes(sizes) ==
    [f \in DOMAIN EmptySearchResult |->
        LET rtype == CHOOSE t \in SearchTypes : FieldOf[t] = f
        IN  ParseEach(rtype, [i \in 1..sizes[rtype] |-> ExportRecord(rtype, i)]).value]

InitExport ==
    /\ pc = "idle"
    /\ \E sizes \in [SearchTypes -> 0..MaxItems] :
         call = [op |-> "export", results |-> ResultOfSizes(sizes)]
    /\ result = [kind |-> "pending"]
    /\ net = <<>>
    /\ gen = NoGen
    /\ jobs = NoJobs
    /\ server = AnyServer

\* text = searcher.export_results_json(results)
ExportJson ==
    /\ call.op = "export"
    /\ call' = [call EXCEPT !.op = "export_results_json"]
    /\ result' = Return(export_results_json(call.results))
    /\ UNCHANGED <<pc, net, gen, server, jobs>>

\* json.loads(text) of the exported text
ReparseJson ==
    /\ call.op = "export_results_json"
    /\ call' = [call EXCEPT !.op = "json.loads"]
    /\ result' = Return(loads(result.value))
    /\ UNCHANGED <<pc, net, gen, server, jobs>>

\* text = searcher.export_results_csv(results)
ExportCsv ==
    /\ call.op = "export"
    /\ call' = [call EXCEPT !.op = "export_results_csv"]
    /\ result' = Return(export_results_csv(call.results))
    /\ UNCHANGED <<pc, net, gen, server, jobs>>

NextExport ==
    \/ ExportJson
    \/ ReparseJson
    \/ ExportCsv

SpecExport == InitExport /\ [][NextExport]_vars

----------------------------------------------------------------------------
(* The retry adapter: src/hdruk_gateway/client.py:93-101.  __init__ mounts *)
(* HTTPAdapter(max_retries=Retry(total=max_retries, status_forcelist=...,   *)
(* allowed_methods=...)) on the session, so the one session.request call of *)
(* _request (client.py:147) is a loop of attempts inside the adapter.       *)

\* largest max_retries a client is constructed with
MaxRetries == 2

\* client.py:96
status_forcelist == {429, 500, 502, 503, 504}

\* client.py:97
allowed_methods == {"GET", "POST"}

\* _get and _post (client.py:197-205) use GET and POST; _request takes any method
RequestMethods == {"GET", "POST", "DELETE"}

\* what one attempt meets on the wire: a response with a status, a refused
\* connection, a connect timeout, or a read timeout
Wire(kind, status) == [kind |-> kind, status |-> status]

WireOutcomes ==
    {Wire("response", s) : s \in {200, 404, 429, 501, 503}}
    \cup {Wire(k, 0) : k \in {"NewConnectionError", "ConnectTimeoutError", "ReadTimeoutError"}}

\* Retry.is_retry and the error branches of Retry.increment: the attempt
\* counts against the budget.  A forced status and a read error are retried
\* for an allowed method only; a connection error for every method.
Retryable(method, w) ==
    IF w.kind = "response" THEN method \in allowed_methods /\ w.status \in status_forcelist
    ELSE IF w.kind = "ReadTimeoutError" THEN method \in allowed_methods
    ELSE TRUE

\* What session.request hands to _request when no further attempt follows.
\* An attempt that counted against the spent budget ends in MaxRetryError,
\* which HTTPAdapter.send turns into RetryError (a RequestException) for a
\* forced status, into ConnectTimeout (a Timeout) for a connect timeout and
\* into ConnectionError for everything else, a read timeout included.  An
\* attempt that did not count is passed through: the response as it is, a
\* read timeout as ReadTimeout (a Timeout).
SessionOutcome(method, w) ==
    IF w.kind = "response" THEN
        IF Retryable(method, w) THEN SessionRaises("RequestException")
        ELSE Response(w.status, "absent", JsonType, EmptyMap)
    ELSE IF w.kind = "ConnectTimeoutError" THEN SessionRaises("Timeout")
    ELSE IF w.kind = "ReadTimeoutError" /\ ~Retryable(method, w) THEN SessionRaises("Timeout")
    ELSE SessionRaises("ConnectionError")

\* client = GatewayClient(max_retries=n); client._request(method, endpoint)
RequestBegin ==
    /\ Fresh
    /\ \E n \in 0..MaxRetries, m \in RequestMethods :
         call' = [op |-> "_request", method |-> m, max_retries |-> n, total |-> n]
    /\ pc' = "request"
    /\ UNCHANGED <<result, net, gen, server, jobs>>

\* one attempt of the adapter; the last one also runs the rest of _request
RequestAttempt ==
    /\ pc = "request"
    /\ \E w \in WireOutcomes :
         /\ net' = Append(net, [request |-> [method |-> call.method, attempt |-> Len(net) + 1],
                                wire |-> w])
         /\ IF Retryable(call.method, w) /\ call.total > 0
            THEN /\ call' = [call EXCEPT !.total = @ - 1]
                 /\ UNCHANGED <<pc, result>>
            ELSE /\ pc' = "idle"
                 /\ result' = _request(SessionOutcome(call.method, w))
                 /\ UNCHANGED call
    /\ UNCHANGED <<gen, server, jobs>>

NextRetry ==
    \/ RequestBegin
    \/ RequestAttempt

\* session.request is a blocking call: once begun, the adapter's loop keeps
\* making attempts, each bounded by the timeout (client.py:151)
SpecRetry == Init /\ [][NextRetry]_vars /\ WF_vars(RequestAttempt)

----------------------------------------------------------------------------
(* health_check: src/hdruk_gateway/client.py:749-760 *)

\* what the session may answer to GET /health
HealthOutcomes == {JsonOk([status |-> JStr("ok")])} \cup TextResponses \cup FailureOutcomes

\* health_check(), the session answering o to GET /health and fallback to the
\* POST /search of search_datasets("test", per_page=1) if that is sent
health_check(o, fallback) ==
    LET first == _request(o)
        second == search_datasets(<<"t", "e", "s", "t">>, NoFilters, 1, 1, fallback)
    IN  IF first.kind = "return"
        THEN [ret |-> Return(TRUE), sent |-> <<GetRequest("/health", EmptyMap)>>, answers |-> <<o>>]
        ELSE IF ~IsGatewayAPIError(first.error)
        THEN [ret |-> first, sent |-> <<GetRequest("/health", EmptyMap)>>, answers |-> <<o>>]
        ELSE [ret |-> IF second.ret.kind = "return" THEN Return(TRUE)
                      ELSE IF IsGatewayAPIError(second.ret.error) THEN Return(FALSE)
                      ELSE second.ret,
              sent |-> <<GetRequest("/health", EmptyMap)>> \o second.sent,
              answers |-> <<o, fallback>>]

HealthCheck ==
    /\ Fresh
    /\ \E o \in HealthOutcomes, fallback \in SearchOutcomes(DATASET) :
         LET r == health_check(o, fallback)
         IN  /\ call' = [op |-> "health_check", outcome |-> o, fallback |-> fallback]
             /\ result' = r.ret
             /\ net' = [i \in 1..Len(r.sent) |-> Exchange(r.sent[i], r.answers[i])]
    /\ UNCHANGED <<pc, gen, server, jobs>>

NextHealth == HealthCheck

SpecHealth == Init /\ [][NextHealth]_vars

----------------------------------------------------------------------------
(* OpenSAFELYJobsClient: src/opensafely_jobs/client.py *)

\* largest reading of the clock, in seconds since the client was constructed
MaxTime == 600

\* most links of an organisations page
MaxLinks == 2

\* client.py:169
_cache_ttl == 300

\* opensafely_jobs/models.py:290-295; the slug is kept as characters
Organization(name, slug, project_count) ==
    [name |-> name, slug |-> slug, project_count |-> project_count]

\* opensafely_jobs/models.py:138-151
JobRequest(identifier, sha, status, workspace_name, project_name) ==
    [identifier |-> identifier, sha |-> sha, status |-> status,
     workspace_name |-> workspace_name, project_name |-> project_name]

\* client.py:77-92
DEMO_ORGANIZATIONS ==
    <<Organization("OpenSAFELY", <<"o", "p", "e", "n", "s", "a", "f", "e", "l", "y">>, 45),
      Organization("Bennett Institute", <<"b", "e", "n", "n", "e", "t", "t", "-", "i", "n", "s", "t", "i", "t", "u", "t", "e">>, 38),
      Organization("University of Oxford", <<"u", "n", "i", "v", "e", "r", "s", "i", "t", "y", "-", "o", "f", "-", "o", "x", "f", "o", "r", "d">>, 28),
      Organization("London School of Hygiene & Tropical Medicine", <<"l", "s", "h", "t", "m">>, 22),
      Organization("University of Bristol", <<"u", "n", "i", "v", "e", "r", "s", "i", "t", "y", "-", "o", "f", "-", "b", "r", "i", "s", "t", "o", "l">>, 18),
      Organization("King's College London", <<"k", "i", "n", "g", "s", "-", "c", "o", "l", "l", "e", "g", "e", "-", "l", "o", "n", "d", "o", "n">>, 15),
      Organization("University of Cambridge", <<"u", "n", "i", "v", "e", "r", "s", "i", "t", "y", "-", "o", "f", "-", "c", "a", "m", "b", "r", "i", "d", "g", "e">>, 14),
      Organization("Imperial College London", <<"i", "m", "p", "e", "r", "i", "a", "l", "-", "c", "o", "l", "l", "e", "g", "e", "-", "l", "o", "n", "d", "o", "n">>, 12),
      Organization("University of Edinburgh", <<"u", "n", "i", "v", "e", "r", "s", "i", "t", "y", "-", "o", "f", "-", "e", "d", "i", "n", "b", "u", "r", "g", "h">>, 11),
      Organization("University of Manchester", <<"u", "n", "i", "v", "e", "r", "s", "i", "t", "y", "-", "o", "f", "-", "m", "a", "n", "c", "h", "e", "s", "t", "e", "r">>, 9),
      Organization("NHS England", <<"n", "h", "s", "-", "e", "n", "g", "l", "a", "n", "d">>, 8),
      Organization("NIHR", <<"n", "i", "h", "r">>, 7),
      Organization("UK Health Security Agency", <<"u", "k", "h", "s", "a">>, 6),
      Organization("University College London", <<"u", "c", "l">>, 5)>>

\* client.py:94-125 (created_at, a time of day relative to the import, is left out)
DEMO_JOB_REQUESTS ==
    <<JobRequest("jr-001", "abc123", "succeeded", "covid-vaccine-effectiveness", "opensafely"),
      JobRequest("jr-002", "def456", "succeeded", "long-covid-risk-factors", "bennett-institute"),
      JobRequest("jr-003", "ghi789", "running", "antibiotic-prescribing", "university-of-oxford"),
      JobRequest("jr-004", "jkl012", "succeeded", "diabetes-outcomes", "lshtm"),
      JobRequest("jr-005", "mno345", "failed", "mental-health-trends", "kings-college-london"),
      JobRequest("jr-006", "pqr678", "succeeded", "cardiovascular-risk", "imperial-college-london"),
      JobRequest("jr-007", "stu901", "succeeded", "respiratory-infections", "university-of-bristol"),
      JobRequest("jr-008", "vwx234", "pending", "cancer-screening", "university-of-cambridge"),
      JobRequest("jr-009", "yza567", "succeeded", "vaccine-safety-monitoring", "ukhsa"),
      JobRequest("jr-010", "bcd890", "succeeded", "primary-care-workload", "nhs-england")>>

\* OpenSAFELYJobsClient(use_demo_fallback=f), client.py:127-169; time is the
\* reading of time.time()
OpenSAFELYJobsClient(f) ==
    [use_demo_fallback |-> f, _using_demo_data |-> FALSE, _cache |-> <<>>, time |-> 0]

\* an <a href> of the organisations page: its href, its text and the project
\* count found in the text of its parent
Link(href, text, projects) == [href |-> href, text |-> text, projects |-> projects]

PageLinks ==
    {Link(<<"/", "u", "n", "i", "v", "e", "r", "s", "i", "t", "y", "-", "o", "f", "-", "b", "r", "i", "s", "t", "o", "l", "/">>, "University of Bristol", 18),
     Link(<<"/", "b", "e", "n", "n", "e", "t", "t", "-", "i", "n", "s", "t", "i", "t", "u", "t", "e", "/">>, "Bennett Institute", 0),
     Link(<<"/", "l", "o", "g", "i", "n", "/">>, "Log in", 0)}

\* a row of the front page: the identifier and the workspace the loop of
\* client.py:365-418 extracts from its links, and its status
PageRows ==
    {JobRequest("jr-live-1", "", "succeeded", "covid-vaccine-effectiveness", "opensafely"),
     JobRequest("", "", "unknown", "", "")}

\* what self.session.get and raise_for_status make of a GET (client.py:175-176):
\* a page, an HTTP error status, or another RequestException
HtmlPage(content) == [kind |-> "page", content |-> content]
HttpError(status) == [kind |-> "HTTPError", status |-> status]

OrganisationPages ==
    {HtmlPage(ls) : ls \in SeqsUpTo(PageLinks, MaxLinks)}
    \cup {HttpError(404), HttpError(503), SessionRaises("ConnectionError")}

FrontPages ==
    {HtmlPage(rs) : rs \in SeqsUpTo(PageRows, 2)}
    \cup {HttpError(503), SessionRaises("ConnectionError")}

\* _get_page (client.py:171-180): the parsed page, or OpenSAFELYConnectionError
\* for every requests.RequestException
_get_page(o) ==
    IF o.kind = "page" THEN Return(o.content) ELSE Raise("OpenSAFELYConnectionError")

\* href.strip("/")
RECURSIVE StripSlashes(_)
StripSlashes(s) ==
    IF s = <<>> THEN s
    ELSE IF Head(s) = "/" THEN StripSlashes(Tail(s))
    ELSE IF s[Len(s)] = "/" THEN StripSlashes(SubSeq(s, 1, Len(s) - 1))
    ELSE s

\* client.py:255, 257: links that are not organisations
SkippedHrefs == {<<"/">>, <<"/", "l", "o", "g", "i", "n", "/">>, <<"/", "l", "o", "g", "o", "u", "t", "/">>, <<"/", "o", "r", "g", "a", "n", "i", "s", "a", "t", "i", "o", "n", "s", "/">>, <<"/", "s", "t", "a", "t", "u", "s", "/">>}
SkippedParts == {<<"s", "t", "a", "t", "i", "c">>, <<"a", "d", "m", "i", "n">>, <<"s", "t", "a", "f", "f">>, <<"a", "p", "i">>}

IsOrganisationLink(link) ==
    /\ link.href \notin SkippedHrefs
    /\ \A x \in SkippedParts : ~Contains(link.href, x)
    /\ Len(link.text) >= 2

\* client.py:249-279: one Organization for each link that is kept
RECURSIVE OrganisationsOf(_)
OrganisationsOf(links) ==
    IF links = <<>> THEN <<>>
    ELSE (IF IsOrganisationLink(Head(links))
          THEN <<Organization(Head(links).text, StripSlashes(Head(links).href), Head(links).projects)>>
          ELSE <<>>)
         \o OrganisationsOf(Tail(links))

\* client.py:282-288: the first organisation of each slug
RECURSIVE DedupeBySlug(_, _)
DedupeBySlug(organizations, seen_slugs) ==
    IF organizations = <<>> THEN <<>>
    ELSE IF Head(organizations).slug \in seen_slugs
    THEN DedupeBySlug(Tail(organizations), seen_slugs)
    ELSE <<Head(organizations)>>
         \o DedupeBySlug(Tail(organizations), seen_slugs \cup {Head(organizations).slug})

\* get_organizations with the demo list stored in the cache on fallback
get_organizations_demo_cached(self, use_cache, o) ==
    LET fresh == /\ use_cache
                 /\ "organizations" \in DOMAIN self._cache
                 /\ self.time - self._cache.organizations.cached_time < _cache_ttl
        sent == <<GetRequest("/organisations/", EmptyMap)>>
        soup == _get_page(o)
        unique_orgs == DedupeBySlug(OrganisationsOf(soup.value), {})
    IN  IF fresh
        THEN [ret |-> Return(self._cache.organizations.cached_data), sent |-> <<>>, self |-> self]
        ELSE IF soup.kind = "return"
        THEN [ret |-> Return(unique_orgs), sent |-> sent,
              self |-> [self EXCEPT !._cache =
                           [organizations |-> [cached_time |-> self.time, cached_data |-> unique_orgs]]]]
        ELSE IF self.use_demo_fallback
        THEN [ret |-> Return(DEMO_ORGANIZATIONS), sent |-> sent,
              self |-> [self EXCEPT !._using_demo_data = TRUE,
                                    !._cache = [organizations |->
                                        [cached_time |-> self.time, cached_data |-> DEMO_ORGANIZATIONS]]]]
        ELSE [ret |-> Raise("OpenSAFELYParseError"), sent |-> sent, self |-> self]

\* get_organizations(use_cache) (client.py:229-299), the session answering o
\* if the page is fetched: what is returned or raised, the requests sent, and
\* the client afterwards
get_organizations(self, use_cache, o) ==
    LET fresh == /\ use_cache
                 /\ "organizations" \in DOMAIN self._cache
                 /\ self.time - self._cache.organizations.cached_time < _cache_ttl
        sent == <<GetRequest("/organisations/", EmptyMap)>>
        soup == _get_page(o)
        unique_orgs == DedupeBySlug(OrganisationsOf(soup.value), {})
    IN  IF fresh
        THEN [ret |-> Return(self._cache.organizations.cached_data), sent |-> <<>>, self |-> self]
        ELSE IF soup.kind = "return"
        THEN [ret |-> Return(unique_orgs), sent |-> sent,
              self |-> [self EXCEPT !._cache =
                           [organizations |-> [cached_time |-> self.time, cached_data |-> unique_orgs]]]]
        ELSE IF self.use_demo_fallback
        THEN [ret |-> Return(DEMO_ORGANIZATIONS), sent |-> sent,
              self |-> [self EXCEPT !._using_demo_data = TRUE]]
        ELSE [ret |-> Raise("OpenSAFELYParseError"), sent |-> sent, self |-> self]

\* client.py:411-419: a JobRequest for each row with an identifier or a workspace
RECURSIVE JobRequestsOf(_)
JobRequestsOf(rows) ==
    IF rows = <<>> THEN <<>>
    ELSE (IF Head(rows).identifier # "" \/ Head(rows).workspace_name # ""
          THEN <<Head(rows)>> ELSE <<>>)
         \o JobRequestsOf(Tail(rows))

\* get_recent_job_requests(limit) (client.py:347-439)
get_recent_job_requests(self, limit, o) ==
    LET sent == <<GetRequest("/", EmptyMap)>>
        soup == _get_page(o)
    IN  IF soup.kind = "return"
        THEN [ret |-> Return(Take(JobRequestsOf(Take(soup.value, limit)), limit)),
              sent |-> sent, self |-> self]
        ELSE IF self.use_demo_fallback
        THEN [ret |-> Return(Take(DEMO_JOB_REQUESTS, limit)), sent |-> sent,
              self |-> [self EXCEPT !._using_demo_data = TRUE]]
        ELSE [ret |-> soup, sent |-> sent, self |-> self]

\* client.py:625-627
clear_cache(self) == [self EXCEPT !._cache = <<>>]

InitJobs ==
    /\ pc = "idle"
    /\ call = [op |-> "init"]
    /\ result = Return(None)
    /\ net = <<>>
    /\ gen = NoGen
    /\ server = AnyServer
    /\ \E f \in BOOLEAN : jobs = OpenSAFELYJobsClient(f)

\* the log entry of a request: the request and whether a page came back
Fetched(req, o) ==
    [request |-> req, outcome |-> IF o.kind = "page" THEN [kind |-> "page"] ELSE o]

\* one call on the client, the session answering o: the requests of the call
\* replace those of the last
JobsCall(c, r, o) ==
    /\ call' = c
    /\ result' = r.ret
    /\ net' = [i \in 1..Len(r.sent) |-> Fetched(r.sent[i], o)]
    /\ jobs' = r.self
    /\ UNCHANGED <<pc, gen, server>>

GetOrganizations ==
    /\ pc = "idle"
    /\ \E use_cache \in BOOLEAN, o \in OrganisationPages :
         JobsCall([op |-> "get_organizations", use_cache |-> use_cache],
                  get_organizations(jobs, use_cache, o), o)

GetRecentJobRequests ==
    /\ pc = "idle"
    /\ \E limit \in {1, 50}, o \in FrontPages :
         JobsCall([op |-> "get_recent_job_requests", limit |-> limit],
                  get_recent_job_requests(jobs, limit, o), o)

ClearCache ==
    /\ pc = "idle"
    /\ call' = [op |-> "clear_cache"]
    /\ result' = Return(None)
    /\ net' = <<>>
    /\ jobs' = clear_cache(jobs)
    /\ UNCHANGED <<pc, gen, server>>

\* time passes between two calls: a second less than the TTL, or the TTL
Tick ==
    /\ pc = "idle"
    /\ \E d \in {_cache_ttl - 1, _cache_ttl} :
         /\ jobs.time + d <= MaxTime
         /\ jobs' = [jobs EXCEPT !.time = @ + d]
    /\ UNCHANGED <<pc, call, result, net, gen, server>>

NextJobs ==
    \/ GetOrganizations
    \/ GetRecentJobRequests
    \/ ClearCache
    \/ Tick

SpecJobs == InitJobs /\ [][NextJobs]_vars

----------------------------------------------------------------------------
(* Properties.  What follows states the claims of the specification over   *)
(* the behaviours above; none of it models code.                           *)

Max(a, b) == IF a >= b THEN a ELSE b

Range(f) == {f[i] : i \in DOMAIN f}

\* a is b with some elements left out (the order kept)
RECURSIVE IsSubSeq(_, _)
IsSubSeq(a, b) ==
    IF a = <<>> THEN TRUE
    ELSE IF b = <<>> THEN FALSE
    ELSE IF Head(a) = Head(b) THEN IsSubSeq(Tail(a), Tail(b))
    ELSE IsSubSeq(a, Tail(b))

\* the request got no 2xx answer
Failed(o) == o.kind # "response" \/ o.status >= 400

\* the failure categories of the transport: a 4xx or 5xx status, a client
\* timeout, a connection failure
CategoryFailure(o) ==
    \/ o.kind \in {"Timeout", "ConnectionError"}
    \/ o.kind = "response" /\ o.status >= 400

\* the error kind the taxonomy of the specification assigns to a status
Taxonomy(status) ==
    CASE status = 401 -> "GatewayAuthError"
      [] status = 404 -> "GatewayNotFoundError"
      [] status = 429 -> "GatewayRateLimitError"
      [] status = 422 -> "GatewayValidationError"
      [] status >= 500 -> "GatewayServerError"
      [] OTHER -> "GatewayAPIError"

BestEffortOps ==
    {"search_datasets", "search_data_uses", "search_publications", "search_tools",
     "search_collections", "export_data_uses"}

----------------------------------------------------------------------------
(* C1 *)

Is503(x) == x.outcome.kind = "response" /\ x.outcome.status = 503

NonEmptyAnswer(x) ==
    /\ x.outcome.kind = "response"
    /\ x.outcome.status = 200
    /\ x.outcome.body.data.items # <<>>

\* the unified search has ended, one of its per-type calls was answered 503
\* and every other call it made was answered with non-empty data
OneTypeFailed ==
    /\ call.op = "search"
    /\ pc = "idle"
    /\ Len(call.query) >= MIN_SEARCH_LENGTH
    /\ Cardinality({i \in 1..Len(net) : Is503(net[i])}) = 1
    /\ \A i \in 1..Len(net) : Is503(net[i]) \/ NonEmptyAnswer(net[i])

\* C1: when the call of exactly one resource type of a unified search is
\* answered 503 and the other calls are answered with non-empty data, search
\* does not raise: it returns a SearchResult whose list is empty for the
\* failed type and non-empty for the others.
C1_OneTypeFails ==
    OneTypeFailed =>
        /\ result.kind = "return"
        /\ \A i \in 1..Len(net) :
             LET list == result.value[FieldOf[net[i].request.body.type]]
             IN  IF Is503(net[i]) THEN list = <<>> ELSE list # <<>>

----------------------------------------------------------------------------
(* C2 *)

\* C2: whatever failure category the transport meets (a 4xx or 5xx status, a
\* timeout, a connection failure), each of the five search_<resource>
\* operations and export_data_uses returns an empty list and does not raise.
C2_BestEffort ==
    (call.op \in BestEffortOps /\ CategoryFailure(call.outcome)) =>
        (result.kind = "return" /\ result.value = <<>>)

----------------------------------------------------------------------------
(* C3 *)

\* C3: for every response status of 400 and above, the transport raises the
\* error kind the taxonomy assigns to that status (401 AuthError, 404
\* NotFoundError, 429 RateLimitError, 422 ValidationError, 5xx ServerError,
\* any other 4xx APIError), and nothing outside the taxonomy.
C3_Taxonomy ==
    \A i \in 1..Len(net) :
        (net[i].outcome.kind = "response" /\ net[i].outcome.status >= 400) =>
            net[i].transport = Raise(Taxonomy(net[i].outcome.status))

----------------------------------------------------------------------------
(* C4 *)

\* C4: a single-resource getter whose request failed never returns a value:
\* it raises NotFoundError on a 404, and for every other failure it raises
\* exactly the taxonomy error the transport produced.
C4_GettersPropagate ==
    (call.op = "get" /\ Failed(call.outcome)) =>
        /\ result.kind = "raise"
        /\ result.error \in GatewayErrors
        /\ result = net[1].transport
        /\ (call.outcome.kind = "response" /\ call.outcome.status = 404)
              => result.error = "GatewayNotFoundError"

----------------------------------------------------------------------------
(* C5 *)

\* the number of characters of a query that are not whitespace
NonWhitespace(q) == Len(SelectSeq(q, LAMBDA c : ~IsSpace(c)))

\* C5 as stated: every query with fewer than 3 non-whitespace characters makes
\* search_datasets return an empty list without a network call.
C5_NonWhitespaceMinimum ==
    (call.op = "search_datasets" /\ NonWhitespace(call.query) < 3) =>
        (net = <<>> /\ result.kind = "return" /\ result.value = <<>>)

\* C5: search_datasets returns an empty list without a network call exactly
\* for the non-empty queries of fewer than 3 characters, whitespace counted;
\* every other query, the empty one included, is sent in one request.
C5_MinLength ==
    call.op = "search_datasets" =>
        IF call.query # <<>> /\ Len(call.query) < 3
        THEN net = <<>> /\ result.kind = "return" /\ result.value = <<>>
        ELSE Len(net) = 1 /\ net[1].request.body.search = call.query

\* a two-character query was cut short although the API would have answered
\* with a record
C5_ShortQueryCut ==
    /\ call.op = "search_datasets"
    /\ call.query = <<"a", "a">>
    /\ call.outcome.kind = "response"
    /\ call.outcome.status = 200
    /\ call.outcome.content_type = JsonType
    /\ call.outcome.body # EmptyMap
    /\ call.outcome.body.data.items # <<>>
    /\ net = <<>>
    /\ result.kind = "return"
    /\ result.value = <<>>

----------------------------------------------------------------------------
(* C6 *)

\* C6: a unified search with a non-empty query of fewer than 3 characters
\* issues no network call for any requested type, and every list of the
\* SearchResult it returns is empty.
C6_UnifiedMinLength ==
    (call.op = "search" /\ call.query # <<>> /\ Len(call.query) < 3) =>
        /\ net = <<>>
        /\ pc = "idle" => (result.kind = "return" /\ result.value = EmptySearchResult)

----------------------------------------------------------------------------
(* C7 *)

\* the cleaned term of the first parse has been parsed again
Reparsed == call.op = "parse_query" /\ call.round = 2

\* C7 as stated: parsing the cleaned term yields the same keywords,
\* geographic_coverage and publisher as parsing the original query.
C7_SameFilters ==
    Reparsed =>
        /\ result.value.filters.keywords = call.first.filters.keywords
        /\ result.value.filters.geographic_coverage = call.first.filters.geographic_coverage
        /\ result.value.filters.publisher = call.first.filters.publisher

\* C7: for a query built from entries of the keyword tables and filler words,
\* parsing the cleaned term finds no filter that parsing the original query
\* did not find: its keywords, geographic_coverage and publisher are each the
\* original list with some entries left out.
C7_NoNewFilters ==
    Reparsed =>
        /\ IsSubSeq(result.value.filters.keywords, call.first.filters.keywords)
        /\ IsSubSeq(result.value.filters.geographic_coverage,
                    call.first.filters.geographic_coverage)
        /\ IsSubSeq(result.value.filters.publisher, call.first.filters.publisher)

\* the scenario query parsed twice: the region found the first time is gone
\* from the cleaned term, the keyword is found again
C7_ScenarioReparsed ==
    /\ Reparsed
    /\ call.original = ScenarioQuery
    /\ Len(call.first.filters.geographic_coverage) = 1
    /\ result.value.filters.geographic_coverage = <<>>
    /\ result.value.filters.keywords # <<>>
    /\ result.value.filters.keywords = call.first.filters.keywords

----------------------------------------------------------------------------
(* C8 *)

\* term occurs in query as a whole word or phrase, at offset i
WholeWordAt(query, term, i) == WordMatchAt(query, Lower(query), Lower(term), i)

WholeWordIn(query, term) ==
    \E i \in 0..(Len(query) - Len(term)) : WholeWordAt(query, term, i)

\* the positions of query inside a whole-word occurrence of one of the terms
Covered(query, terms) ==
    {p \in 1..Len(query) :
        \E k \in 1..Len(terms) :
            \E i \in 0..(Len(query) - Len(terms[k])) :
                WholeWordAt(query, terms[k], i) /\ i < p /\ p <= i + Len(terms[k])}

\* query without the characters at the positions in gone
RECURSIVE Without(_, _, _)
Without(query, gone, p) ==
    IF p > Len(query) THEN <<>>
    ELSE (IF p \in gone THEN <<>> ELSE <<query[p]>>) \o Without(query, gone, p + 1)

\* the query once every whole-word occurrence of a matched term is deleted in
\* full, filler words are dropped and whitespace is normalised
DeletedInFull(query, terms) ==
    JoinSplit(RemoveWords(Without(query, Covered(query, terms), 1), filler_words))

\* C8: every region synonym and publisher alias that occurs in the query as a
\* whole word or phrase is recorded as a filter (the region Title-cased, every
\* canonical name of the alias), and every whole-word occurrence of a matched
\* term is deleted in full from the cleaned term.
C8_MatchedTermsRemoved ==
    (call.op = "parse_query" /\ call.round = 1 /\ result.kind = "return") =>
        /\ \A k \in 1..Len(REGION_KEYWORDS) :
             (\E j \in 1..Len(REGION_KEYWORDS[k].words) :
                 WholeWordIn(call.query, REGION_KEYWORDS[k].words[j]))
             => Title(REGION_KEYWORDS[k].key) \in Range(result.value.filters.geographic_coverage)
        /\ \A k \in 1..Len(PUBLISHER_ALIASES) :
             WholeWordIn(call.query, PUBLISHER_ALIASES[k].key)
             => Range(PUBLISHER_ALIASES[k].words) \subseteq Range(result.value.filters.publisher)
        /\ result.value.cleaned = DeletedInFull(call.query, result.value.terms_to_remove)

----------------------------------------------------------------------------
(* C9 *)

\* the pagination fields of the page an exchange fetched
PageOf(x) == from_api_response(x.transport.value)

\* the datasets of the page an exchange fetched
RECURSIVE ItemsOf(_)
ItemsOf(exchanges) ==
    IF exchanges = <<>> THEN <<>>
    ELSE (IF Head(exchanges).transport.kind = "return"
          THEN ParseAll(DATASET, PageOf(Head(exchanges)).data.items).value
          ELSE <<>>)
         \o ItemsOf(Tail(exchanges))

\* the requests so far asked for pages 1, 2, 3, ... with one list request per
\* page; every page before the last one fetched had current_page < last_page;
\* the items yielded are the items of the fetched pages, in order; the
\* generator ends on a page with current_page >= last_page, all items yielded
PagesInOrder ==
    /\ \A i \in 1..Len(net) :
         /\ net[i].request.method = "GET"
         /\ net[i].request.endpoint = "/datasets"
         /\ net[i].request.body.page = i
    /\ \A i \in 1..(Len(net) - 1) :
         /\ net[i].transport.kind = "return"
         /\ PageOf(net[i]).current_page < PageOf(net[i]).last_page
    /\ gen.state \in {"suspended", "done"} =>
         /\ Len(gen.yielded) <= Len(ItemsOf(net))
         /\ gen.yielded = SubSeq(ItemsOf(net), 1, Len(gen.yielded))
    /\ gen.state = "done" =>
         /\ net # <<>>
         /\ ~(PageOf(net[Len(net)]).current_page < PageOf(net[Len(net)]).last_page)
         /\ gen.yielded = ItemsOf(net)

\* against a server that echoes the page number and reports last_page L, no
\* more than max(L, 1) pages are requested, and exactly that many once the
\* generator has ended
EchoPageCount ==
    server.kind = "echo" =>
        /\ Len(net) <= Max(server.last_page, 1)
        /\ gen.state = "done" => Len(net) = Max(server.last_page, 1)

\* C9 as stated: against a server that echoes the page number and reports
\* last_page L, the generator ends after exactly L page requests.
C9_ExactlyLRequests ==
    (server.kind = "echo" /\ gen.state = "done") => Len(net) = server.last_page

\* C9: iter_datasets requests pages 1, 2, 3, ... in order, one request per
\* page, yields every item of each fetched page in order and stops after the
\* first page whose current_page is not below its last_page; against a server
\* that echoes the page number and reports a fixed last_page L, a consumer
\* that keeps asking reaches the end of the generator (or an error of a
\* request) after exactly max(L, 1) page requests: L when L >= 1, one when
\* L = 0.
C9_Pagination ==
    /\ [](PagesInOrder /\ EchoPageCount)
    /\ (server.kind = "echo" /\ gen.state = "created")
          ~> (gen.state \in {"done", "raised"})

\* an echoing server with several pages was read to the end
C9_ReadToTheEnd ==
    /\ server.kind = "echo"
    /\ server.last_page >= 2
    /\ gen.state = "done"
    /\ Len(net) = server.last_page
    /\ Len(gen.yielded) >= 2

----------------------------------------------------------------------------
(* C10 *)

\* suggestions were generated for a result of 5 datasets or more
ManyDatasets ==
    /\ call.op = "_generate_suggestions"
    /\ result.kind = "return"
    /\ Len(call.results.datasets) >= 5

----------------------------------------------------------------------------
(* C11 *)

\* some condition keyword has none of its synonyms in the query text
KeywordGap(query) ==
    \E k \in 1..Len(CONDITION_KEYWORDS) :
        \A j \in 1..Len(CONDITION_KEYWORDS[k].words) :
            ~Contains(Lower(query), CONDITION_KEYWORDS[k].words[j])

\* C11: when the result holds between 1 and 4 datasets and some condition
\* keyword has no synonym in the query, the suggestions hold at least one
\* suggestion of type 'condition' and at most 5 entries.
C11_ConditionSuggested ==
    (/\ call.op = "_generate_suggestions"
     /\ result.kind = "return"
     /\ Len(call.results.datasets) >= 1
     /\ Len(call.results.datasets) <= 4
     /\ KeywordGap(call.query)) =>
        /\ \E i \in 1..Len(result.value) : result.value[i].type = "condition"
        /\ Len(result.value) <= 5

(* C12 *)
\* the publisher names of the datasets of the call, in order
NamesOf(datasets) == [i \in 1..Len(datasets) |-> publisher_name(datasets[i])]

HowMany(names, name) == Cardinality({i \in 1..Len(names) : names[i] = name})

FirstSeen(names, name) == CHOOSE i \in 1..Len(names) : names[i] = name /\ \A j \in 1..(i - 1) : names[j] # name

\* a ranks before b: a larger count, or the same count and seen first
RanksBefore(names, a, b) ==
    \/ HowMany(names, a) > HowMany(names, b)
    \/ HowMany(names, a) = HowMany(names, b) /\ FirstSeen(names, a) < FirstSeen(names, b)

PublisherFacets == {i \in 1..Len(result.value) : result.value[i].name = "Publisher"}

\* C12: the facets hold a Publisher facet iff the result has at least one
\* dataset; its buckets hold the number of datasets of each publisher name,
\* in descending order of count with ties in first-seen order, and are the
\* first 10 publishers of that order when there are more.
C12_PublisherFacet ==
    (call.op = "_generate_facets" /\ result.kind = "return") =>
        LET names == NamesOf(call.results.datasets)
        IN  /\ Cardinality(PublisherFacets) = (IF Len(names) >= 1 THEN 1 ELSE 0)
            /\ \A f \in PublisherFacets :
                 LET b == result.value[f].buckets
                     keys == {b[j].key : j \in 1..Len(b)}
                 IN  /\ Len(b) <= 10
                     /\ \A j \in 1..Len(b) :
                          /\ b[j].count = HowMany(names, b[j].key)
                          /\ b[j].count >= 1
                     /\ \A j, k \in 1..Len(b) : j < k => RanksBefore(names, b[j].key, b[k].key)
                     /\ \A n \in Range(names) \ keys :
                          /\ Len(b) = 10
                          /\ \A j \in 1..Len(b) : RanksBefore(names, b[j].key, n)

\* the scenario with the CPRD dataset first: the facet puts NHS England first
C12_ScenarioBuckets ==
    /\ call.op = "_generate_facets"
    /\ result.kind = "return"
    /\ NamesOf(call.results.datasets) = <<"CPRD", "NHS England", "NHS England">>
    /\ result.value[1].name = "Publisher"
    /\ result.value[1].buckets =
         <<[key |-> "NHS England", count |-> 2], [key |-> "CPRD", count |-> 1]>>

(* C13 *)
\* C13: in DatasetSearcher.search with parse_query true the term handed to
\* the client is the cleaned term of the query, or the raw query when the
\* cleaned term is empty; with parse_query false the raw query is handed over
\* unchanged and no filters are passed.
C13_TermSent ==
    (call.op \in {"search", "DatasetSearcher.search"}) =>
        LET raw == call.searcher.query
            cleaned == parse_query(raw).cleaned
        IN  IF call.searcher.parse_query
            THEN call.query = (IF cleaned = <<>> THEN raw ELSE cleaned)
            ELSE call.query = raw /\ call.filters = NoFilters

\* a parsed search whose cleaned term is empty went to the client with the
\* raw query and came back
C13_FallbackToRaw ==
    /\ call.op = "DatasetSearcher.search"
    /\ call.searcher.parse_query
    /\ parse_query(call.searcher.query).cleaned = <<>>
    /\ call.query = call.searcher.query
    /\ net # <<>>
    /\ result.kind = "return"

(* C14, C15, C16 *)
\* a field of a domain object: the snake_case and camelCase spellings of its
\* raw key, whether its name has several words, and the default of the
\* dataclass (models.py)
F(field, snake, camel, multi, default) ==
    [field |-> field, snake |-> snake, camel |-> camel, multi |-> multi, default |-> default]

MapperFields(rtype) ==
    CASE rtype = DATASET ->
          <<F("id", "id", "id", FALSE, ""),
            F("pid", "pid", "pid", FALSE, None),
            F("status", "status", "status", FALSE, "active"),
            F("team_id", "team_id", "teamId", TRUE, None),
            F("user_id", "user_id", "userId", TRUE, None),
            F("durs_count", "durs_count", "dursCount", TRUE, 0),
            F("publications_count", "publications_count", "publicationsCount", TRUE, 0),
            F("tools_count", "tools_count", "toolsCount", TRUE, 0),
            F("collections_count", "collections_count", "collectionsCount", TRUE, 0),
            F("is_cohort_discovery", "is_cohort_discovery", "isCohortDiscovery", TRUE, FALSE),
            F("versions", "versions", "versions", FALSE, <<>>),
            F("metadata", "metadata", "latest_metadata", FALSE, NoObject),
            F("team", "team", "team", FALSE, NoObject)>>
      [] rtype = DATA_USE_REGISTER ->
          <<F("id", "id", "id", FALSE, ""),
            F("project_id_text", "project_id_text", "projectIdText", TRUE, None),
            F("project_title", "project_title", "projectTitle", TRUE, ""),
            F("organisation_id", "organisation_id", "organisationId", TRUE, None),
            F("organisation_name", "organisation_name", "organisationName", TRUE, None),
            F("organisation_sector", "organisation_sector", "organisationSector", TRUE, None),
            F("project_start_date", "project_start_date", "projectStartDate", TRUE, None),
            F("project_end_date", "project_end_date", "projectEndDate", TRUE, None),
            F("access_date", "access_date", "accessDate", TRUE, None),
            F("latest_approval_date", "latest_approval_date", "latestApprovalDate", TRUE, None),
            F("lay_summary", "lay_summary", "laySummary", TRUE, None),
            F("technical_summary", "technical_summary", "technicalSummary", TRUE, None),
            F("public_benefit_statement", "public_benefit_statement", "publicBenefitStatement", TRUE, None),
            F("datasets", "datasets", "datasetTitles", FALSE, <<>>),
            F("keywords", "keywords", "keywords", FALSE, <<>>),
            F("access_type", "access_type", "accessType", TRUE, None),
            F("status", "status", "status", FALSE, None),
            F("team", "team", "team", FALSE, NoObject)>>
      [] rtype = PUBLICATION ->
          <<F("id", "id", "id", FALSE, ""),
            F("paper_title", "paper_title", "paperTitle", TRUE, ""),
            F("authors", "authors", "authors", FALSE, None),
            F("year_of_publication", "year_of_publication", "yearOfPublication", TRUE, None),
            F("journal_name", "journal_name", "journalName", TRUE, None),
            F("paper_doi", "paper_doi", "paperDoi", TRUE, None),
            F("publication_type", "publication_type", "publicationType", TRUE, None),
            F("abstract", "abstract", "abstract", FALSE, None),
            F("full_text_url", "full_text_url", "fullTextUrl", TRUE, None),
            F("url", "url", "url", FALSE, None),
            F("status", "status", "status", FALSE, None)>>
      [] rtype = TOOL ->
          <<F("id", "id", "id", FALSE, ""),
            F("name", "name", "name", FALSE, ""),
            F("description", "description", "description", FALSE, None),
            F("url", "url", "url", FALSE, None),
            F("license", "license", "license", FALSE, None),
            F("tech_stack", "tech_stack", "techStack", TRUE, None),
            F("programming_languages", "programming_languages", "programmingLanguages", TRUE, <<>>),
            F("tags", "tags", "tags", FALSE, <<>>),
            F("enabled", "enabled", "enabled", FALSE, TRUE),
            F("team", "team", "team", FALSE, NoObject)>>
      [] rtype = COLLECTION ->
          <<F("id", "id", "id", FALSE, ""),
            F("name", "name", "name", FALSE, ""),
            F("description", "description", "description", FALSE, None),
            F("keywords", "keywords", "keywords", FALSE, <<>>),
            F("enabled", "enabled", "enabled", FALSE, TRUE),
            F("status", "status", "status", FALSE, None),
            F("public", "public", "public", FALSE, TRUE),
            F("team", "team", "team", FALSE, NoObject)>>
      [] rtype = TEAM ->
          <<F("id", "id", "id", FALSE, ""),
            F("pid", "pid", "pid", FALSE, None),
            F("name", "name", "name", FALSE, ""),
            F("introduction", "introduction", "introduction", FALSE, None),
            F("contact_point", "contact_point", "contactPoint", TRUE, None),
            F("team_logo", "team_logo", "teamLogo", TRUE, None),
            F("url", "url", "url", FALSE, None),
            F("member_of", "member_of", "memberOf", TRUE, None),
            F("enabled", "enabled", "enabled", FALSE, TRUE),
            F("allows_messaging", "allows_messaging", "allowsMessaging", TRUE, FALSE),
            F("is_dar", "is_dar", "isDar", TRUE, FALSE)>>

Mapped == call.op = "parse" /\ result.kind # "pending"

\* C14: no mapper raises on an unrecognised enum string: an unknown dataset
\* status maps to 'active', an unknown organisation sector to Other and an
\* unknown access type to null.
C14_TotalEnums ==
    Mapped =>
        /\ result.kind = "return"
        /\ (/\ call.rtype = DATASET
            /\ "status" \in DOMAIN call.data
            /\ call.data.status \notin DatasetStatusValues) => result.value.status = "active"
        /\ (/\ call.rtype = DATA_USE_REGISTER
            /\ "organisation_sector" \in DOMAIN call.data
            /\ Truthy(call.data.organisation_sector)
            /\ call.data.organisation_sector \notin OrganisationSectorValues) =>
               result.value.organisation_sector = "Other"
        /\ (/\ call.rtype = DATA_USE_REGISTER
            /\ "access_type" \in DOMAIN call.data
            /\ Truthy(call.data.access_type)
            /\ call.data.access_type \notin AccessTypeValues) =>
               result.value.access_type = None

\* C15: every mapper returns an object for every partial raw record, and a
\* field with neither spelling of its key in the record holds its default.
C15_TotalOverPartialMaps ==
    Mapped =>
        /\ result.kind = "return"
        /\ \A i \in 1..Len(MapperFields(call.rtype)) :
             LET f == MapperFields(call.rtype)[i]
             IN  (f.snake \notin DOMAIN call.data /\ f.camel \notin DOMAIN call.data) =>
                     result.value[f.field] = f.default

\* the value a field takes from a raw value: itself, or for the two enum
\* fields of a data use its total conversion
Converted(field, v) ==
    IF field = "organisation_sector"
    THEN (IF ~Truthy(v) \/ v \in OrganisationSectorValues THEN v ELSE "Other")
    ELSE IF field = "access_type"
    THEN (IF ~Truthy(v) \/ v \in AccessTypeValues THEN v ELSE None)
    ELSE v

\* C16: for every multi-word field, a mapper that returns takes the value
\* under the snake_case key when that key is present, and the value under the
\* camelCase key when only that one is present.
C16_BothSpellings ==
    (Mapped /\ result.kind = "return") =>
        \A i \in 1..Len(MapperFields(call.rtype)) :
            LET f == MapperFields(call.rtype)[i]
            IN  f.multi =>
                  /\ f.snake \in DOMAIN call.data =>
                       result.value[f.field] = Converted(f.field, call.data[f.snake])
                  /\ (f.snake \notin DOMAIN call.data /\ f.camel \in DOMAIN call.data) =>
                       result.value[f.field] = Converted(f.field, call.data[f.camel])

(* C17 *)
\* C17: the total_count of the re-parsed JSON export equals the
\* total_results of the exported SearchResult, whatever the lengths of its
\* five lists.
C17_RoundTrip ==
    (call.op = "json.loads" /\ result.kind = "return") =>
        result.value.total_count = total_results(call.results)

\* a result with items of all five types was exported and re-parsed, and its
\* count of at least 10 came back
C17_AllTypesReparsed ==
    /\ call.op = "json.loads"
    /\ result.kind = "return"
    /\ \A t \in SearchTypes : call.results[FieldOf[t]] # <<>>
    /\ total_results(call.results) >= 10
    /\ result.value.total_count = total_results(call.results)

(* C18 *)
\* the lengths of the arrays of a JSON object, added up
ArrayLengths(doc) ==
    LET arrays == {k \in DOMAIN doc : doc[k].t = "list"}
        RECURSIVE Sum(_)
        Sum(ks) == IF ks = {} THEN 0
                   ELSE LET k == CHOOSE x \in ks : TRUE IN Len(doc[k].items) + Sum(ks \ {k})
    IN  Sum(arrays)

\* C18: the JSON export holds an array for each of the five lists of the
\* SearchResult, with one entry per item, and its total_count is the sum of
\* the lengths of the exported arrays.
C18_ArrayPerType ==
    (call.op = "export_results_json" /\ result.kind = "return") =>
        LET doc == result.value.map
        IN  /\ \A t \in SearchTypes :
                 /\ FieldOf[t] \in DOMAIN doc
                 /\ doc[FieldOf[t]].t = "list"
                 /\ Len(doc[FieldOf[t]].items) = Len(call.results[FieldOf[t]])
            /\ TextInt(doc.total_count.literal) = ArrayLengths(doc)

(* C19 *)
\* C19: the CSV export holds one block, a header row and a row per item, for
\* each non-empty list of the SearchResult and none for an empty one; a blank
\* row stands only between two blocks, so never first or last and never next
\* to another blank row.
C19_BlockPerType ==
    (call.op = "export_results_csv" /\ result.kind = "return") =>
        LET rows == result.value
            blank == {i \in 1..Len(rows) : rows[i] = <<>>}
            headers == {i \in 1..Len(rows) : rows[i] # <<>> /\ rows[i][1] = "Type"}
            items == (1..Len(rows)) \ (blank \cup headers)
            present == {t \in SearchTypes : call.results[FieldOf[t]] # <<>>}
        IN  /\ Cardinality(headers) = Cardinality(present)
            /\ Cardinality(items) = total_results(call.results)
            /\ Cardinality({i \in items : rows[i][1] = "Dataset"}) = Len(call.results.datasets)
            /\ Cardinality({i \in items : rows[i][1] = "Data Use"}) = Len(call.results.data_uses)
            /\ \A i \in blank : /\ i > 1
                                /\ i < Len(rows)
                                /\ (i - 1) \in items
                                /\ (i + 1) \in headers
            /\ \A i \in headers : i = 1 \/ (i - 1) \in blank

(* C20 *)
\* the SearchResult field and the class of each resource type
OwnField ==
    [dataset |-> "datasets", dataUseRegister |-> "data_uses", publication |-> "publications",
     tool |-> "tools", collection |-> "collections"]

OwnClass ==
    [dataset |-> "Dataset", dataUseRegister |-> "DataUseRegister", publication |-> "Publication",
     tool |-> "Tool", collection |-> "Collection"]

\* the resource types of the requests made so far, in the order made
RequestedTypes == [i \in 1..Len(net) |-> net[i].request.body.type]

\* the requests made so far follow the order of resource_types, and a search
\* that returned holds every answer in the field of its type
C20_Stored ==
    (call.op = "search") =>
        /\ IsSubSeq(RequestedTypes, call.resource_types)
        /\ (pc = "idle" /\ result.kind = "return") =>
             /\ \A t \in SearchTypes :
                  LET list == result.value[OwnField[t]]
                  IN  /\ \A k \in 1..Len(list) : list[k].type = OwnClass[t]
                      /\ t \notin Range(call.resource_types) => list = <<>>
                      /\ \A i \in 1..Len(net) :
                           (net[i].request.body.type = t /\ NonEmptyAnswer(net[i])) =>
                               LET items == net[i].outcome.body.data.items
                               IN  /\ Len(list) = Len(items)
                                   /\ \A k \in 1..Len(items) : list[k].id = items[k].id
             /\ total_results(result.value) =
                    Len(result.value.datasets) + Len(result.value.data_uses)
                    + Len(result.value.publications) + Len(result.value.tools)
                    + Len(result.value.collections)

\* a step of a running search makes at most one request, for the resource
\* type whose turn it is
C20_Step ==
    (call.op = "search" /\ pc = "search") =>
        \/ net' = net
        \/ /\ Len(net') = Len(net) + 1
           /\ SubSeq(net', 1, Len(net)) = net
           /\ net'[Len(net')].request.body.type = call.resource_types[result.done + 1]

\* C20: GatewayClient.search makes the per-type searches one at a time in the
\* order of resource_types; a search that returns holds each answered list in
\* the field of its own type, leaves the lists of the types not requested
\* empty, and has total_results equal to the sum of the five list lengths.
C20_Sequential == [](C20_Stored) /\ [][C20_Step]_vars

\* a search for two resource types returned after both were answered with a
\* record, in the order of the list
C20_TwoTypesStored ==
    /\ call.op = "search"
    /\ pc = "idle"
    /\ result.kind = "return"
    /\ Len(call.resource_types) = 2
    /\ Len(net) = 2
    /\ RequestedTypes = call.resource_types
    /\ \A i \in 1..2 : NonEmptyAnswer(net[i])
    /\ \A i \in 1..2 : result.value[OwnField[call.resource_types[i]]] # <<>>
    /\ total_results(result.value) = 2

(* C21 *)
\* a step that makes a request: it is made inside a next() of a generator
\* that is neither abandoned nor ended, every item of the pages fetched
\* before has been handed to the consumer, and the page asked for is the one
\* after the pages this generator has fetched (page 1 for a new generator)
C21_Step ==
    (Len(net') > Len(net)) =>
        /\ pc = "iter"
        /\ gen.state \in {"created", "suspended"}
        /\ gen.buffer = <<>>
        /\ gen.yielded = gen.fetched
        /\ Len(net') = Len(net) + 1
        /\ net'[Len(net')].request.body.page = Len(net) + 1

\* a generator nobody has asked for an item has made no request, and an
\* abandoned one is not running
C21_State ==
    /\ gen.state = "created" /\ pc = "idle" => net = <<>>
    /\ gen.state = "abandoned" => pc = "idle"

\* C21: iter_datasets is lazy: no page is requested before the consumer asks
\* for the first item, page n+1 is requested only after every item of page n
\* was handed over, an abandoned iterator makes no further request, and every
\* new call of iter_datasets starts at page 1 whatever the earlier iterators
\* did.
C21_Lazy == [](C21_State) /\ [][C21_Step]_vars

\* a second iterator, made after the first had reached page 2 or later, has
\* asked for page 1 and was abandoned with items of that page left
C21_SecondIteratorAbandoned ==
    /\ call.op = "iter_datasets"
    /\ "earlier" \in DOMAIN call
    /\ call.earlier >= 2
    /\ gen.state = "abandoned"
    /\ gen.buffer # <<>>
    /\ Len(net) = 1
    /\ net[1].request.body.page = 1

LastWire == net[Len(net)].wire

RetryCause(method, w) ==
    \/ w.kind = "response" /\ method \in {"GET", "POST"} /\ w.status \in {429, 500, 502, 503, 504}
    \/ w.kind # "response"

C22_Bounded ==
    /\ call.op = "_request" =>
         /\ Len(net) <= 1 + call.max_retries
         /\ Len(net) + call.total <= 1 + call.max_retries
         /\ \A i \in 1..(Len(net) - 1) : RetryCause(call.method, net[i].wire)
    /\ (call.op = "_request" /\ pc = "idle" /\ call.total = 0 /\ Len(net) > 0) =>
         /\ LastWire.kind = "NewConnectionError" =>
              result = Raise("GatewayConnectionError")
         /\ LastWire.kind \in {"ConnectTimeoutError", "ReadTimeoutError"} =>
              result = Raise("GatewayTimeoutError")

\* C22: a transport request makes at most 1 + max_retries attempts, an
\* attempt is followed by another only after a GET/POST response with a
\* status in {429, 500, 502, 503, 504} or after a network-level failure, and
\* with the budget spent a refused connection is raised as
\* GatewayConnectionError and a timeout as GatewayTimeoutError; the request
\* always comes to an end.
C22_RetryBudget == [](C22_Bounded) /\ ((pc = "request") ~> (pc = "idle"))

(* C23 *)

Suggested(type) == {i \in 1..Len(result.value) : result.value[i].type = type}

\* the suggestion is the query followed by the first name of an alias that
\* is not part of the query text
ForAbsentAlias(s) ==
    \E k \in 1..Len(PUBLISHER_ALIASES) :
        /\ s.text = call.query \o <<" ">> \o PUBLISHER_ALIASES[k].words[1]
        /\ ~Contains(call.query, PUBLISHER_ALIASES[k].key)

\* the suggestion is the query followed by a condition of which neither the
\* name nor a synonym is part of the query text
ForAbsentCondition(s) ==
    \E k \in 1..Len(CONDITION_KEYWORDS) :
        /\ s.text = call.query \o <<" ">> \o CONDITION_KEYWORDS[k].key
        /\ ~Contains(call.query, CONDITION_KEYWORDS[k].key)
        /\ \A j \in 1..Len(CONDITION_KEYWORDS[k].words) :
               ~Contains(call.query, CONDITION_KEYWORDS[k].words[j])

\* C23: the suggestions are at most 5, every publisher suggestion scores
\* higher than every condition suggestion, a publisher suggestion is made
\* only for an alias absent from the query, and a condition suggestion only
\* when the result holds a dataset and neither the condition nor one of its
\* synonyms occurs in the query.
C23_SuggestionRules ==
    (call.op = "_generate_suggestions" /\ result.kind = "return") =>
        /\ Len(result.value) <= 5
        /\ \A i \in Suggested("publisher"), j \in Suggested("condition") :
               result.value[i].score > result.value[j].score
        /\ \A i \in Suggested("publisher") : ForAbsentAlias(result.value[i])
        /\ \A j \in Suggested("condition") :
               /\ Len(call.results.datasets) >= 1
               /\ ForAbsentCondition(result.value[j])

\* a query naming three aliases with two datasets found: four publisher
\* suggestions and one condition suggestion
C23_BothKinds ==
    /\ call.op = "_generate_suggestions"
    /\ result.kind = "return"
    /\ call.query = ThreeAliases
    /\ Len(call.results.datasets) = 2
    /\ Len(result.value) = 5
    /\ Cardinality(Suggested("publisher")) = 4
    /\ Cardinality(Suggested("condition")) = 1

(* C24 *)

\* no whitespace at either end and no two whitespace characters in a row
Trimmed(s) ==
    /\ s # <<>> => ~IsSpace(s[1]) /\ ~IsSpace(s[Len(s)])
    /\ \A i \in 1..(Len(s) - 1) : ~(IsSpace(s[i]) /\ IsSpace(s[i + 1]))

\* the synonym through which each condition and data type of the query matched
KeywordTerms(query) ==
    Range(MatchedWords(CONDITION_KEYWORDS, Lower(query)))
    \cup Range(MatchedWords(DATA_TYPE_KEYWORDS, Lower(query)))

\* C24: the cleaned term of parse_query holds none of the filler words as a
\* whole word in any case, has no whitespace at its ends and no run of
\* whitespace, and still holds every matched condition and data-type term.
C24_CleanedTerm ==
    (call.op = "parse_query" /\ call.round = 1 /\ result.kind = "return") =>
        /\ \A k \in 1..Len(filler_words) : ~WholeWordIn(result.value.cleaned, filler_words[k])
        /\ Trimmed(result.value.cleaned)
        /\ \A t \in KeywordTerms(call.query) : Contains(Lower(result.value.cleaned), t)

(* C25 *)

FailedWithAPIError(x) == x.transport.kind = "raise" /\ IsGatewayAPIError(x.transport.error)

\* C25: health_check returns False when the /health request and the fallback
\* dataset search both fail with an API error, and returns True only when
\* one of the two requests succeeded.
C25_HealthCheck ==
    call.op = "health_check" =>
        /\ (Len(net) = 2 /\ FailedWithAPIError(net[1]) /\ FailedWithAPIError(net[2]))
             => result = Return(FALSE)
        /\ (result.kind = "return" /\ result.value = TRUE)
             => \E i \in 1..Len(net) : net[i].transport.kind = "return"

(* C26 *)

\* the operation is a dataset search that hands a filters object to the client
WithFilters ==
    \/ call.op = "get_publisher_datasets"
    \/ call.op = "search_datasets" /\ ~call.filters.none

\* C26: the body of the request sent for get_publisher_datasets(publisher_name,
\* page, per_page), and for any search_datasets call given a filters object,
\* carries the page and per_page arguments of the call as page and perPage.
C26_PageOfTheCall ==
    (WithFilters /\ pc = "idle") =>
        \A i \in 1..Len(net) :
            /\ net[i].request.body.page = call.page
            /\ net[i].request.body.perPage = call.per_page

(* C27 *)

\* the requests of the call that are dataset searches
DatasetSearches ==
    {i \in 1..Len(net) : net[i].request.endpoint = "/search" /\ net[i].request.body.type = "dataset"}

\* C27: DatasetSearcher.search with parse_query true, given a raw query of at
\* least 3 characters, sends the dataset search request: the parsed term is
\* never one that the minimum-length check of search_datasets cuts short.
C27_SearchIssued ==
    (/\ call.op = "DatasetSearcher.search"
     /\ call.searcher.parse_query
     /\ Len(call.searcher.query) >= 3) =>
        /\ Len(call.query) >= 3
        /\ DatasetSearches # {}

(* C28 *)

Keys(table) == [k \in 1..Len(table) |-> table[k].key]

\* one of the synonyms of entry k of the table is a whole word or phrase of the query
SynonymIsWord(table, k, query) ==
    \E j \in 1..Len(table[k].words) : WholeWordIn(query, table[k].words[j])

\* C28: parse_query records a region, a publisher or a keyword only when a
\* synonym of that key occurs in the query as a whole word or phrase, and
\* records each key at most once, in the order of the lookup tables.
C28_WholeWordsOnly ==
    (call.op = "parse_query" /\ call.round = 1 /\ result.kind = "return") =>
        LET f == result.value.filters
        IN  /\ \A k \in 1..Len(REGION_KEYWORDS) :
                 Title(REGION_KEYWORDS[k].key) \in Range(f.geographic_coverage)
                 => SynonymIsWord(REGION_KEYWORDS, k, call.query)
            /\ \A k \in 1..Len(PUBLISHER_ALIASES) :
                 Range(PUBLISHER_ALIASES[k].words) \cap Range(f.publisher) # {}
                 => WholeWordIn(call.query, PUBLISHER_ALIASES[k].key)
            /\ \A k \in 1..Len(CONDITION_KEYWORDS) :
                 CONDITION_KEYWORDS[k].key \in Range(f.keywords)
                 => SynonymIsWord(CONDITION_KEYWORDS, k, call.query)
            /\ \A k \in 1..Len(DATA_TYPE_KEYWORDS) :
                 DATA_TYPE_KEYWORDS[k].key \in Range(f.keywords)
                 => SynonymIsWord(DATA_TYPE_KEYWORDS, k, call.query)
            /\ NoRepeat(f.geographic_coverage) /\ NoRepeat(f.publisher) /\ NoRepeat(f.keywords)
            /\ IsSubSeq(f.geographic_coverage, MapTitle(Keys(REGION_KEYWORDS)))
            /\ IsSubSeq(f.publisher,
                        Flatten([k \in 1..Len(PUBLISHER_ALIASES) |-> PUBLISHER_ALIASES[k].words]))
            /\ IsSubSeq(f.keywords, Keys(CONDITION_KEYWORDS) \o Keys(DATA_TYPE_KEYWORDS))

(* C29 *)

DataCalls == {"get_organizations", "get_recent_job_requests"}

\* the last call fetched a page, did not get it, and returned the demo list
ReturnedDemo == net # <<>> /\ net[1].outcome.kind # "page"

\* C29: after get_organizations or get_recent_job_requests has returned data,
\* is_using_demo_data is true exactly when that data was the demo fallback; it
\* is false again once a call has returned live or cached live data.
C29_DemoFlag ==
    (call.op \in DataCalls /\ result.kind = "return") =>
        (jobs._using_demo_data <=> ReturnedDemo)

(* C30 *)

HasEntry(client) == "organizations" \in DOMAIN client._cache

SameCache(a, b) ==
    /\ HasEntry(a) <=> HasEntry(b)
    /\ HasEntry(a) => a._cache.organizations = b._cache.organizations

\* the cache holds an entry younger than 300 seconds
WithinTTL ==
    /\ HasEntry(jobs)
    /\ jobs.time - jobs._cache.organizations.cached_time < 300

\* a step that is a call of op (the clock stands still during a call)
CallOf(op) == call'.op = op /\ jobs'.time = jobs.time

C30_Step ==
    /\ CallOf("get_organizations") =>
         IF call'.use_cache /\ WithinTTL
         THEN /\ net' = <<>>
              /\ result' = Return(jobs._cache.organizations.cached_data)
              /\ SameCache(jobs', jobs)
         ELSE /\ Len(net') = 1
              /\ net'[1].request = GetRequest("/organisations/", EmptyMap)
              /\ IF net'[1].outcome.kind = "page"
                 THEN /\ result'.kind = "return"
                      /\ HasEntry(jobs')
                      /\ jobs'._cache.organizations =
                           [cached_time |-> jobs.time, cached_data |-> result'.value]
                 ELSE SameCache(jobs', jobs)
    /\ CallOf("clear_cache") => ~HasEntry(jobs')
    /\ ~(CallOf("get_organizations") \/ CallOf("clear_cache")) => SameCache(jobs', jobs)

C30_State ==
    (call.op # "init" /\ HasEntry(jobs)) =>
        /\ jobs._cache.organizations.cached_data # DEMO_ORGANIZATIONS
        /\ jobs._cache.organizations.cached_time <= jobs.time

\* C30: over any sequence of get_organizations and clear_cache calls, a call
\* with use_cache=True within 300 seconds of the last successful live fetch
\* returns the list of that fetch and sends no request; a call with
\* use_cache=False, after the 300 seconds or after clear_cache sends the
\* request for the live page; and the cache is written only by a successful
\* live fetch, never with the demo fallback list.
C30_Cache == [](C30_State) /\ [][C30_Step]_vars

\* 299 seconds after a live fetch, and after a demo fallback in between, a
\* call with use_cache=True returned the fetched list without a request
C30_CachedAfterFallback ==
    /\ call.op = "get_organizations"
    /\ call.use_cache
    /\ net = <<>>
    /\ jobs._using_demo_data
    /\ HasEntry(jobs)
    /\ jobs.time - jobs._cache.organizations.cached_time = 299
    /\ result = Return(jobs._cache.organizations.cached_data)
    /\ Len(result.value) = 2

====
